---- MODULE Spec2Model ----
(***************************************************************************)
(* Model of the defmt host-side decoder (decoder/src/decoder.rs).          *)
(*                                                                         *)
(* `decode` is modelled as a state machine: one action per step of         *)
(* `decode`, per arm of the `match` in `Decoder::decode_format`, and per   *)
(* loop iteration / return of `Decoder::decode_format_slice`.  The Rust    *)
(* call stack is the variable `stack`.                                     *)
(*                                                                         *)
(* Representation choices                                                  *)
(*  - a byte is a number in 0..255, a byte slice a sequence of bytes;      *)
(*  - an integer wider than TLC's integers (u64, u128, i128) is a `Big`:   *)
(*    its little-endian base-256 digits without trailing zero digits;      *)
(*  - a format string is the sequence of its '|'-separated pieces, each    *)
(*    piece the sequence of fragments the parser yields for it;            *)
(*  - an `Arc<Bool>` is an index into `cells`.                             *)
(***************************************************************************)
EXTENDS Integers, Sequences, FiniteSets, TLC

(***************************************************************************)
(* Bounds of the model.                                                    *)
(***************************************************************************)
\* The inputs of `decode` are enumerated up to MaxLen bytes after the index.
MaxLen == 6

(***************************************************************************)
(* Sequences and bytes.                                                    *)
(***************************************************************************)
Take(s, k) == SubSeq(s, 1, k)

Drop(s, k) == SubSeq(s, k + 1, Len(s))

Last(s) == s[Len(s)]

Front(s) == SubSeq(s, 1, Len(s) - 1)

RECURSIVE Pow2(_)
Pow2(k) == IF k = 0 THEN 1 ELSE 2 * Pow2(k - 1)

\* bit `k` of the byte `b`
Bit(b, k) == (b \div Pow2(k)) % 2

\* all sequences over `alphabet` of length at most `n`
SeqsUpTo(alphabet, n) == UNION {[1 .. k -> alphabet] : k \in 0 .. n}

RECURSIVE Repeat(_, _)
Repeat(x, n) == IF n = 0 THEN <<>> ELSE <<x>> \o Repeat(x, n - 1)

(***************************************************************************)
(* Big: unsigned integers of up to 128 bits as little-endian byte digits.  *)
(***************************************************************************)
RECURSIVE Canon(_)
\* drop the most significant zero digits
Canon(ds) == IF ds # <<>> /\ Last(ds) = 0 THEN Canon(Front(ds)) ELSE ds

\* the Big of a little-endian byte string (what read_uN::<LE> returns)
BigOfBytes(bs) == Canon(bs)

\* the Big of a small natural number
BigOfNat(n) == Canon(<<n % 256, (n \div 256) % 256, (n \div 65536) % 256, n \div 16777216>>)

\* a Big below 2^24 as a TLC integer
IsSmall(v) == Len(v) <= 3

Digit(v, j) == IF j <= Len(v) THEN v[j] ELSE 0

Small(v) == Digit(v, 1) + 256 * Digit(v, 2) + 65536 * Digit(v, 3)

RECURSIVE BigLessFrom(_, _, _)
BigLessFrom(a, b, j) ==
  IF j = 0 THEN FALSE
  ELSE IF Digit(a, j) # Digit(b, j) THEN Digit(a, j) < Digit(b, j)
  ELSE BigLessFrom(a, b, j - 1)

\* a < b on canonical Bigs
BigLess(a, b) ==
  IF Len(a) # Len(b) THEN Len(a) < Len(b) ELSE BigLessFrom(a, b, Len(a))

(***************************************************************************)
(* Format strings, as the parser (defmt_parser, not part of this file)     *)
(* sees them.                                                              *)
(***************************************************************************)
Ty(t) == [t |-> t, a |-> 0, b |-> 0]

\* Type::BitField(start..end)
BitField(start, end) == [t |-> "BitField", a |-> start, b |-> end]

\* Type::U8Array(len)
U8Array(n) == [t |-> "U8Array", a |-> n, b |-> 0]

\* Type::FormatArray(len)
FormatArray(n) == [t |-> "FormatArray", a |-> n, b |-> 0]

\* Fragment::Parameter(Parameter { index, ty, hint })
Parameter(i, ty, hint) == [frag |-> "Parameter", index |-> i, ty |-> ty, hint |-> hint]

\* Fragment::Literal
Literal(text) == [frag |-> "Literal", text |-> text]

RECURSIVE Flatten(_)
Flatten(pieces) ==
  IF pieces = <<>> THEN <<>>
  ELSE IF Len(pieces) = 1 THEN pieces[1]
  ELSE pieces[1] \o <<Literal("|")>> \o Flatten(Tail(pieces))

\* defmt_parser::parse(format, ForwardsCompatible): the fragments of the whole
\* string; '|' is literal text to the parser.
parse(format) == Flatten(format)

\* format.contains('|')
contains_pipe(format) == Len(format) > 1

\* format.chars().filter(|c| *c == '|').count()
count_pipes(format) == Len(format) - 1

\* format.split('|').nth(d): Some(piece) as <<piece>>, None as <<>>
split_nth(format, d) == IF d + 1 <= Len(format) THEN <<(<<format[d + 1]>>)>> ELSE <<>>

(***************************************************************************)
(* The format strings used by the tables below.                            *)
(***************************************************************************)
PBool(i) == Parameter(i, Ty("Bool"), "None")

PU8(i) == Parameter(i, Ty("U8"), "None")

PFormat(i) == Parameter(i, Ty("Format"), "None")

\* "{=u8:us}", the timestamp format of the tests
F_TsU8 == <<(<<Parameter(0, Ty("U8"), "Microseconds")>>)>>

\* "{=bool}"
F_TsBool == <<(<<PBool(0)>>)>>

\* "Hello, world!"
F_Hello == <<(<<Literal("Hello, world!")>>)>>

\* "The answer is {=u8}!"
F_Answer == <<(<<Literal("The answer is "), PU8(0), Literal("!")>>)>>

\* "{=bool} {=u8} {=bool} {=bool}": booleans around a non-bool argument
F_BoolU8 == <<(<<PBool(0), Literal(" "), PU8(1), Literal(" "), PBool(2), Literal(" "), PBool(3)>>)>>

\* "{=bool}{=bool}": a struct of two booleans
F_BoolPair == <<(<<PBool(0), PBool(1)>>)>>

\* "{=bool}{=bool}{=bool}{=bool}{=bool}{=bool}{=bool}"
F_Bools7 == <<(<<PBool(0), PBool(1), PBool(2), PBool(3), PBool(4), PBool(5), PBool(6)>>)>>

\* "{=bool}{=?}{=bool}": booleans around a nested format
F_Nested == <<(<<PBool(0), PFormat(1), PBool(2)>>)>>

\* "{=u8}"
F_U8 == <<(<<PU8(0)>>)>>

\* "Unit": a struct without fields
F_Unit == <<(<<Literal("Unit")>>)>>

\* "None|Some({=?})"
F_Option == <<(<<Literal("None")>>), (<<Literal("Some("), PFormat(0), Literal(")")>>)>>

\* "{=?}{=?}": a struct of two formatted fields
F_Pair == <<(<<PFormat(0), PFormat(1)>>)>>

\* "x={=?}"
F_X == <<(<<Literal("x="), PFormat(0)>>)>>

\* "{=[?]}"
F_Slice == <<(<<Parameter(0, Ty("FormatSlice"), "None")>>)>>

\* "{=[?]}{=?}": a slice and a formatted field after it
F_SliceThenFormat == <<(<<Parameter(0, Ty("FormatSlice"), "None"), PFormat(1)>>)>>

\* "{=[?;2]}"
F_Array2 == <<(<<Parameter(0, FormatArray(2), "None")>>)>>

\* "{=[?;0]}{=u8}"
F_Array0 == <<(<<Parameter(0, FormatArray(0), "None"), PU8(1)>>)>>

\* "interned"
F_Interned == <<(<<Literal("interned")>>)>>

\* "{=str}{=istr}"
F_Strings == <<(<<Parameter(0, Ty("Str"), "None"), Parameter(1, Ty("IStr"), "None")>>)>>

\* "{=usize} {=isize} {=u16}"
F_Numbers ==
  <<(<<Parameter(0, Ty("Usize"), "None"), Literal(" "), Parameter(1, Ty("Isize"), "None"),
       Literal(" "), Parameter(2, Ty("U16"), "None")>>)>>

\* "{=[u8]}{=[u8;1]}{:?}"
F_Bytes ==
  <<(<<Parameter(0, Ty("U8Slice"), "None"), Parameter(1, U8Array(1), "None"),
       Parameter(2, Ty("Debug"), "None")>>)>>

\* "{=char}"
F_Char == <<(<<Parameter(0, Ty("Char"), "None")>>)>>

\* "bitfields {0=0..7:b} {0=9..14:b} {1=8..10:b}"
F_Bitfields ==
  <<(<<Literal("bitfields "), Parameter(0, BitField(0, 7), "Binary"), Literal(" "),
       Parameter(0, BitField(9, 14), "Binary"), Literal(" "),
       Parameter(1, BitField(8, 10), "Binary")>>)>>

\* "{=[?]:a}"
F_AsciiSlice == <<(<<Parameter(0, Ty("FormatSlice"), "Ascii")>>)>>

\* "{=u8}|Unit"
F_U8OrUnit == <<(<<PU8(0)>>), (<<Literal("Unit")>>)>>

\* "{2=u8}"
F_Third == <<(<<PU8(2)>>)>>

(***************************************************************************)
(* Symbol tables.                                                          *)
(***************************************************************************)
\* TableEntry::new_without_symbol(tag, string)
Entry(tag, string) == [tag |-> tag, string |-> string]

\* Tag::to_level
to_level(tag) == IF tag \in {"Trace", "Debug", "Info", "Warn", "Error"} THEN <<tag>> ELSE <<>>

\* The tables `decode` is called with.  `timestamp` is an Option: <<>> or <<entry>>.
Tables ==
  [ plain |->
      [timestamp |-> <<>>,
       entries |-> (0 :> Entry("Info", F_Hello) @@ 1 :> Entry("Debug", F_Answer) @@
                    2 :> Entry("Trace", F_Hello) @@ 3 :> Entry("Warn", F_Answer) @@
                    4 :> Entry("Error", F_Hello) @@ 5 :> Entry("Derived", F_U8) @@
                    6 :> Entry("Timestamp", F_TsU8))],
    stamped |->
      [timestamp |-> <<Entry("Timestamp", F_TsU8)>>,
       entries |-> (0 :> Entry("Info", F_Hello) @@ 1 :> Entry("Debug", F_Answer) @@
                    2 :> Entry("Derived", F_U8) @@ 3 :> Entry("Warn", F_BoolU8))],
    bools |->
      [timestamp |-> <<Entry("Timestamp", F_TsBool)>>,
       entries |-> (0 :> Entry("Info", F_BoolU8) @@ 1 :> Entry("Derived", F_BoolPair) @@
                    2 :> Entry("Derived", F_Bools7) @@ 3 :> Entry("Info", F_Nested) @@
                    4 :> Entry("Warn", F_Bools7))],
    option |->
      [timestamp |-> <<Entry("Timestamp", F_TsU8)>>,
       entries |-> (4 :> Entry("Info", F_X) @@ 3 :> Entry("Derived", F_Option) @@
                    2 :> Entry("Derived", F_U8))],
    slices |->
      [timestamp |-> <<>>,
       entries |-> (0 :> Entry("Derived", F_Option) @@ 1 :> Entry("Derived", F_Pair) @@
                    2 :> Entry("Derived", F_Unit) @@ 3 :> Entry("Info", F_Slice) @@
                    4 :> Entry("Info", F_Array2) @@
                    5 :> Entry("Warn", F_SliceThenFormat))],
    elems |->
      [timestamp |-> <<>>,
       entries |-> (0 :> Entry("Prim", F_U8) @@ 1 :> Entry("Info", F_Slice) @@
                    2 :> Entry("Derived", F_BoolPair) @@ 3 :> Entry("Info", F_Array0))],
    misc |->
      [timestamp |-> <<>>,
       entries |-> (0 :> Entry("Info", F_Strings) @@ 1 :> Entry("Str", F_Interned) @@
                    2 :> Entry("Info", F_Numbers) @@ 3 :> Entry("Error", F_Bitfields) @@
                    4 :> Entry("Debug", F_Bytes) @@ 5 :> Entry("Warn", F_Char))],
    render |->
      [timestamp |-> <<>>,
       entries |-> (0 :> Entry("Info", F_AsciiSlice) @@ 1 :> Entry("Derived", F_U8OrUnit) @@
                    2 :> Entry("Derived", F_U8) @@ 3 :> Entry("Warn", F_Third))],
    nested |->
      [timestamp |-> <<>>,
       entries |-> (0 :> Entry("Info", F_Array2) @@ 1 :> Entry("Derived", F_Array2) @@
                    2 :> Entry("Derived", F_X) @@ 3 :> Entry("Derived", F_U8))] ]

\* Table::_get
Table_get(t, index) ==
  IF IsSmall(index) /\ Small(index) \in DOMAIN Tables[t].entries
  THEN LET entry == Tables[t].entries[Small(index)]
       IN  <<[lvl |-> to_level(entry.tag), format |-> entry.string]>>
  ELSE <<>>

\* Table::get_with_level: <<[lvl, format]>> or <<>> (Err)
get_with_level(t, index) ==
  LET got == Table_get(t, index)
  IN  IF got # <<>> /\ got[1].lvl # <<>>
      THEN <<[lvl |-> got[1].lvl[1], format |-> got[1].format]>>
      ELSE <<>>

\* Table::get_without_level: <<format>> or <<>> (Err)
get_without_level(t, index) ==
  LET got == Table_get(t, index)
  IN  IF got # <<>> /\ got[1].lvl = <<>> THEN <<got[1].format>> ELSE <<>>

(***************************************************************************)
(* Inputs of decode: for each table, families of byte slices over the      *)
(* bytes that matter for it up to a length bound, and a few longer slices. *)
(***************************************************************************)
\* LEB128 of 2^58: eight continuation bytes and 0x04
Leb2pow58 == Repeat(128, 8) \o <<4>>

\* the inputs of table t that start with one of `heads` and go on with up to n bytes
\* of `alphabet`
Family(t, heads, alphabet, n) == [table |-> t, heads |-> heads, alphabet |-> alphabet, n |-> n]

\* a byte as a one-byte slice
Heads(S) == {<<i>> : i \in S}

Families ==
  {Family("plain", {<<>>} \cup Heads(0 .. 7) \cup {<<128, 0>>, <<129, 0>>, <<255, 127>>},
          {0, 1, 255}, MaxLen - 4),
   Family("plain", {Repeat(255, 9) \o <<2, 0>>, Repeat(128, 9) \o <<1>>}, {}, 0),
   Family("stamped", {<<>>} \cup Heads(0 .. 4), {0, 1, 255}, MaxLen - 3),
   Family("bools", {<<>>} \cup Heads({0, 2, 3, 4, 170}), {0, 1, 2, 170, 255}, MaxLen - 3),
   Family("option", {<<>>} \cup Heads({0, 3}), 0 .. 3, MaxLen - 4),
   Family("option", Heads({4}), 0 .. 3, MaxLen - 1),
   Family("slices", Heads({0}), 0 .. 2, MaxLen - 4),
   Family("slices", Heads({3, 4}), 0 .. 2, MaxLen),
   Family("slices", {<<3>> \o Leb2pow58 \o <<1>>}, {}, 0),
   Family("slices", Heads({5}), 0 .. 2, MaxLen - 1),
   Family("elems", Heads({0, 2}), {0, 2, 4, 255}, MaxLen - 4),
   Family("elems", Heads({1, 3}), {0, 2, 4, 255}, MaxLen - 2),
   Family("misc", Heads({0}), {0, 1, 2, 128, 194}, MaxLen - 2),
   Family("misc", Heads({1, 6}), {0, 1, 2, 128, 255}, MaxLen - 4),
   Family("misc", Heads({2}), {0, 1, 2, 128, 255}, MaxLen - 2),
   Family("misc", Heads({3}), {0, 1, 255}, MaxLen - 3),
   Family("misc", Heads({4}), {0, 1, 2, 255}, MaxLen - 2),
   Family("misc", Heads({5}), {0, 16, 17, 216}, MaxLen - 2),
   Family("render", Heads({0}), {0, 1, 2, 65}, MaxLen - 1),
   Family("render", Heads({3}), {0, 65, 255}, MaxLen - 4),
   Family("nested", {<<0, 1, 2, 3>>}, {0, 3, 7}, MaxLen - 1),
   Family("nested", Heads({0}), {1, 2, 3}, MaxLen - 3)}

(***************************************************************************)
(* Stream reader.                                                          *)
(***************************************************************************)
RECURSIVE leb128_scan_unchecked(_, _, _)
\* a mutant: the tenth byte is not checked for overflow
leb128_scan_unchecked(bs, pos, shift) ==
  IF pos > Len(bs) THEN [res |-> "UnexpectedEof", n |-> Len(bs)]
  ELSE IF bs[pos] < 128 THEN [res |-> "Ok", n |-> pos]
  ELSE leb128_scan_unchecked(bs, pos + 1, shift + 7)

RECURSIVE leb128_scan(_, _, _)
\* leb128::read::unsigned: where the encoding ends, or why it does not
leb128_scan(bs, pos, shift) ==
  IF pos > Len(bs) THEN [res |-> "UnexpectedEof", n |-> Len(bs)]
  ELSE IF shift = 63 /\ bs[pos] # 0 /\ bs[pos] # 1 THEN [res |-> "Malformed", n |-> pos]
  ELSE IF bs[pos] < 128 THEN [res |-> "Ok", n |-> pos]
  ELSE leb128_scan(bs, pos + 1, shift + 7)

\* bit p (0..63) of the value encoded by the first n bytes of bs
leb128_bit(bs, n, p) == IF p \div 7 + 1 <= n THEN Bit(bs[p \div 7 + 1] % 128, p % 7) ELSE 0

\* byte j (0..7) of that value
leb128_byte(bs, n, j) ==
  leb128_bit(bs, n, 8 * j) + 2 * leb128_bit(bs, n, 8 * j + 1)
  + 4 * leb128_bit(bs, n, 8 * j + 2) + 8 * leb128_bit(bs, n, 8 * j + 3)
  + 16 * leb128_bit(bs, n, 8 * j + 4) + 32 * leb128_bit(bs, n, 8 * j + 5)
  + 64 * leb128_bit(bs, n, 8 * j + 6) + 128 * leb128_bit(bs, n, 8 * j + 7)

\* the result of read_leb128 for the outcome r of the scan
leb128_result(bs, r) ==
  [res |-> r.res, n |-> r.n,
   val |-> IF r.res = "Ok" THEN Canon([j \in 1 .. 8 |-> leb128_byte(bs, r.n, j - 1)]) ELSE <<>>]

\* read_leb128: [res, n (bytes consumed), val (the u64)]
read_leb128(bs) == leb128_result(bs, leb128_scan(bs, 1, 0))

IsCont(b) == b \in 128 .. 191

RECURSIVE utf8_valid(_)
\* core::str::from_utf8(bs).is_ok()
utf8_valid(bs) ==
  IF bs = <<>> THEN TRUE
  ELSE LET b == bs[1]
       IN  IF b < 128 THEN utf8_valid(Tail(bs))
           ELSE IF b \in 194 .. 223
             THEN Len(bs) >= 2 /\ IsCont(bs[2]) /\ utf8_valid(Drop(bs, 2))
           ELSE IF b \in 224 .. 239
             THEN /\ Len(bs) >= 3
                  /\ bs[2] \in (IF b = 224 THEN 160 .. 191 ELSE IF b = 237 THEN 128 .. 159 ELSE 128 .. 191)
                  /\ IsCont(bs[3])
                  /\ utf8_valid(Drop(bs, 3))
           ELSE IF b \in 240 .. 244
             THEN /\ Len(bs) >= 4
                  /\ bs[2] \in (IF b = 240 THEN 144 .. 191 ELSE IF b = 244 THEN 128 .. 143 ELSE 128 .. 191)
                  /\ IsCont(bs[3])
                  /\ IsCont(bs[4])
                  /\ utf8_valid(Drop(bs, 4))
           ELSE FALSE

(***************************************************************************)
(* Bitfield coalescer and parameter preparation.                           *)
(***************************************************************************)
IsBitfieldWith(p, index) == p.ty.t = "BitField" /\ p.index = index

RECURSIVE SeqMin(_)
SeqMin(s) == IF Len(s) = 1 THEN s[1] ELSE LET m == SeqMin(Tail(s)) IN IF s[1] < m THEN s[1] ELSE m

RECURSIVE SeqMax(_)
SeqMax(s) == IF Len(s) = 1 THEN s[1] ELSE LET m == SeqMax(Tail(s)) IN IF s[1] > m THEN s[1] ELSE m

\* defmt_parser::get_max_bitfield_range: (smallest start, largest end)
get_max_bitfield_range(bitfields) ==
  [start |-> SeqMin([k \in 1 .. Len(bitfields) |-> bitfields[k].ty.a]),
   end |-> SeqMax([k \in 1 .. Len(bitfields) |-> bitfields[k].ty.b])]

RECURSIVE merge_loop(_, _, _, _)
\* the `for index in 0..=max_index` loop of merge_bitfields
merge_loop(params, merged_bitfields, index, max_index) ==
  IF index > max_index THEN params \o merged_bitfields
  ELSE LET bitfields_with_index == SelectSeq(params, LAMBDA p : IsBitfieldWith(p, index))
       IN  IF bitfields_with_index # <<>>
           THEN LET range == get_max_bitfield_range(bitfields_with_index)
                IN  merge_loop(SelectSeq(params, LAMBDA p : ~IsBitfieldWith(p, index)),
                               Append(merged_bitfields,
                                      Parameter(index, BitField(range.start, range.end), "None")),
                               index + 1, max_index)
           ELSE merge_loop(params, merged_bitfields, index + 1, max_index)

\* a mutant: the bitfields are left as they are
merge_bitfields_none(params) == params

\* a mutant: the merged bitfields are put before the other parameters
merge_bitfields_merged_first(params) ==
  IF params = <<>> THEN params
  ELSE SelectSeq(merge_loop(params, <<>>, 0,
                            SeqMax([k \in 1 .. Len(params) |-> params[k].index])),
                 LAMBDA p : p.ty.t = "BitField")
       \o SelectSeq(params, LAMBDA p : p.ty.t # "BitField")

\* merge_bitfields, lines 476-528
merge_bitfields(params) ==
  IF params = <<>> THEN params
  ELSE merge_loop(params, <<>>, 0, SeqMax([k \in 1 .. Len(params) |-> params[k].index]))

RECURSIVE insert_by_index(_, _)
insert_by_index(sorted, p) ==
  IF sorted = <<>> THEN <<p>>
  ELSE IF Last(sorted).index <= p.index THEN Append(sorted, p)
  ELSE Append(insert_by_index(Front(sorted), p), Last(sorted))

RECURSIVE sort_by_index(_)
\* params.sort_by(|a, b| a.index.cmp(&b.index)): a stable sort
sort_by_index(params) ==
  IF params = <<>> THEN <<>>
  ELSE insert_by_index(sort_by_index(Front(params)), Last(params))

RECURSIVE dedup_by_index(_)
\* params.dedup_by(|a, b| a.index == b.index): the first of each run is kept
dedup_by_index(params) ==
  IF Len(params) <= 1 THEN params
  ELSE LET front == dedup_by_index(Front(params))
       IN  IF Last(front).index = Last(params).index THEN front ELSE Append(front, Last(params))

\* the parameters of a format string, as decode_format collects them
parameters_of(format) == SelectSeq(parse(format), LAMBDA f : f.frag = "Parameter")

\* a mutant: the references to one index are not deduplicated
prepare_params_no_dedup(params) == sort_by_index(merge_bitfields(params))

\* Decoder::prepare_params
prepare_params(params) == dedup_by_index(sort_by_index(merge_bitfields(params)))

(***************************************************************************)
(* State.                                                                  *)
(***************************************************************************)
VARIABLES
  pc,              \* where `decode` is: idle, index, timestamp, ts_args, lookup, args, flush, done
  table,           \* decode's `table`: a name in DOMAIN Tables
  input,           \* decode's `bytes` as passed by the caller
  len,             \* decode's `len`
  bytes,           \* Decoder::bytes: the bytes not read yet
  index,           \* decode's `index`
  level,           \* decode's `level`
  format,          \* decode's `format`
  timestamp_args,  \* decode's `timestamp_args`
  args,            \* decode's `args`
  format_list,     \* Decoder::format_list
  below_enum,      \* Decoder::below_enum
  bools_tbd,       \* Decoder::bools_tbd: the cells waiting for their bit
  cells,           \* the Arc<Bool> allocated so far, by allocation order
  stack,           \* the active calls of decode_format and decode_format_slice
  result,          \* what decode returned
  log,             \* history: the reads and format resolutions of this call, in order
  call             \* a function of the decoder applied on its own: its input and its output

vars ==
  <<pc, table, input, len, bytes, index, level, format, timestamp_args, args, format_list,
    below_enum, bools_tbd, cells, stack, result, log, call>>

\* the variables of a decode call
decoder_vars ==
  <<pc, table, input, len, bytes, index, level, format, timestamp_args, args, format_list,
    below_enum, bools_tbd, cells, stack, result, log>>

\* the state as one record, so that a step is a function of it
St ==
  [pc |-> pc, table |-> table, input |-> input, len |-> len, bytes |-> bytes, index |-> index,
   level |-> level, format |-> format, timestamp_args |-> timestamp_args, args |-> args,
   format_list |-> format_list, below_enum |-> below_enum, bools_tbd |-> bools_tbd,
   cells |-> cells, stack |-> stack, result |-> result, log |-> log]

SetDecoder(s) ==
  /\ pc' = s.pc
  /\ table' = s.table
  /\ input' = s.input
  /\ len' = s.len
  /\ bytes' = s.bytes
  /\ index' = s.index
  /\ level' = s.level
  /\ format' = s.format
  /\ timestamp_args' = s.timestamp_args
  /\ args' = s.args
  /\ format_list' = s.format_list
  /\ below_enum' = s.below_enum
  /\ bools_tbd' = s.bools_tbd
  /\ cells' = s.cells
  /\ stack' = s.stack
  /\ result' = s.result
  /\ log' = s.log

\* a step of the decoder
Set(s) == SetDecoder(s) /\ call' = call

\* no function is applied on its own
NoCall == [fn |-> "none", arg |-> <<>>, out |-> <<>>, done |-> TRUE]

\* Option<FormatList>: None, Some(Build { formats }), Some(Use { formats, cursor })
NoList == [mode |-> "None", formats |-> <<>>, cursor |-> 0]

BuildList(formats) == [mode |-> "Build", formats |-> formats, cursor |-> 0]

UseList(formats, cursor) == [mode |-> "Use", formats |-> formats, cursor |-> cursor]

NoResult == [kind |-> "None", consumed |-> 0, frame |-> <<>>]

\* no decode call is running
Idle ==
  [pc |-> "idle", table |-> "plain", input |-> <<>>, len |-> 0, bytes |-> <<>>, index |-> <<>>,
   level |-> "", format |-> <<>>, timestamp_args |-> <<>>, args |-> <<>>,
   format_list |-> NoList, below_enum |-> FALSE, bools_tbd |-> <<>>, cells |-> <<>>,
   stack |-> <<>>, result |-> NoResult, log |-> <<>>]

\* an element of a format slice after the first is being decoded
InLaterElement(s) ==
  \E k \in 1 .. Len(s.stack) : s.stack[k].k = "slice" /\ s.stack[k].busy /\ s.stack[k].i >= 1

\* the depth of nesting of structured arguments (Format, slice element) around the current one
Depth(s) == Cardinality({k \in 1 .. Len(s.stack) : s.stack[k].k = "fmt"})

Running(s) == s.pc \in {"ts_args", "args"} /\ s.stack # <<>>

Top(s) == s.stack[Len(s.stack)]

\* the `for param in &params` loop of decode_format is at a parameter
AtSomeParam(s) ==
  /\ Running(s)
  /\ Top(s).k = "fmt"
  /\ Top(s).i <= Len(Top(s).params)

\* the `for param in &params` loop of decode_format is at a parameter of one of these types
AtParam(s, types) == AtSomeParam(s) /\ Top(s).params[Top(s).i].ty.t \in types

Param(s) == Top(s).params[Top(s).i]

\* one entry of `log`: `data` is what was read from the stream at code site `site`, with
\* the decoder's state at that moment: the phase of decode, the nesting depth, the
\* pending bools, below_enum, the list's mode and unused entries, the parameter's type
Event(s, site, data, src) ==
  [site |-> site, data |-> data, src |-> src, phase |-> s.pc, depth |-> Depth(s),
   pend |-> Len(s.bools_tbd), be |-> s.below_enum, mode |-> s.format_list.mode,
   left |-> IF s.format_list.mode = "Use"
            THEN Len(s.format_list.formats) - s.format_list.cursor ELSE 0,
   param |-> IF AtSomeParam(s) THEN Param(s).ty.t ELSE "",
   later |-> InLaterElement(s)]

\* the `?` operator on an Err: decode returns it
Fail(s, kind) == [s EXCEPT !.pc = "done", !.result = [kind |-> kind, consumed |-> 0, frame |-> <<>>]]

\* a panic: decode does not return
Abort(s) == Fail(s, "Abort")

\* the cursor moves past k bytes
Consume(s, k, site) ==
  [s EXCEPT !.bytes = Drop(@, k), !.log = Append(@, Event(s, site, Take(s.bytes, k), "stream"))]

\* a step that reads nothing is recorded
Note(s, site, src) == [s EXCEPT !.log = Append(@, Event(s, site, <<>>, src))]

\* args.push(arg), and the loop moves on
PushArg(s, arg) ==
  [s EXCEPT !.stack[Len(s.stack)].args = Append(@, arg), !.stack[Len(s.stack)].i = @ + 1]

\* a call of decode_format(format): its parameters are parsed and prepared
CallFormat(s, fmt, ret, saved) ==
  [s EXCEPT !.stack = Append(@, [k |-> "fmt", params |-> prepare_params(parameters_of(fmt)),
                                 i |-> 1, args |-> <<>>, format |-> fmt, ret |-> ret,
                                 saved |-> saved])]

(***************************************************************************)
(* Packed booleans.                                                        *)
(***************************************************************************)
MAX_NUM_BOOL_FLAGS == 8

\* a mutant: the bits are dealt from the lowest up
nth_flag_lsb_first(bool_flags, n, k) == Bit(bool_flags, k - 1) = 1

\* the value the k-th pending bool (1-based) gets from the byte: flag_index = n - k
nth_flag(bool_flags, n, k) == Bit(bool_flags, n - k) = 1

\* the position of cell c in the pending list, 0 when it is not pending
pending_position(tbd, c) ==
  IF \E k \in 1 .. Len(tbd) : tbd[k] = c THEN CHOOSE k \in 1 .. Len(tbd) : tbd[k] = c ELSE 0

\* a mutant: the pending list is not cleared
read_and_unpack_bools_keeps_pending(s) ==
  IF s.bytes = <<>> THEN Fail(s, "UnexpectedEof")
  ELSE IF Len(s.bools_tbd) > 8 THEN Abort(s)
  ELSE [Consume(s, 1, "flush") EXCEPT
          !.cells = [c \in 1 .. Len(s.cells) |->
                       IF pending_position(s.bools_tbd, c) # 0
                       THEN nth_flag(s.bytes[1], Len(s.bools_tbd),
                                     pending_position(s.bools_tbd, c))
                       ELSE s.cells[c]]]

\* Decoder::read_and_unpack_bools
read_and_unpack_bools(s) ==
  IF s.bytes = <<>> THEN Fail(s, "UnexpectedEof")
  ELSE IF Len(s.bools_tbd) > 8 THEN Abort(s)   \* 1u8 << flag_index overflows
  ELSE [Consume(s, 1, "flush") EXCEPT
          !.cells = [c \in 1 .. Len(s.cells) |->
                       IF pending_position(s.bools_tbd, c) # 0
                       THEN nth_flag(s.bytes[1], Len(s.bools_tbd),
                                     pending_position(s.bools_tbd, c))
                       ELSE s.cells[c]],
          !.bools_tbd = <<>>]

(***************************************************************************)
(* decode.                                                                 *)
(***************************************************************************)
\* a mutant: decode goes on with the Decoder of the call before
EnteredWithOldDecoder(t, b) ==
  [Idle EXCEPT !.pc = "index", !.table = t, !.input = b, !.len = Len(b), !.bytes = b,
               !.format_list = format_list, !.below_enum = below_enum]

\* the state in which decode starts
Entered(t, b) ==
  [Idle EXCEPT !.pc = "index", !.table = t, !.input = b, !.len = Len(b), !.bytes = b]

\* decode, lines 433-441, with the outcome r of read_leb128
DecodeIndexRead(s, r) ==
  IF r.res # "Ok" THEN Fail(s, r.res)
  ELSE [Consume(s, r.n, "index") EXCEPT !.index = r.val, !.pc = "timestamp"]

\* decode, lines 432-441: the log index is read and the Decoder is made
DecodeDo(t, b) == DecodeIndexRead(Entered(t, b), read_leb128(b))

\* a mutant: the index is looked up first, the timestamp never decoded
DecodeTimestampSkipped(s) == [s EXCEPT !.pc = "lookup"]

\* decode, lines 443-449: the timestamp format, when the table has one
DecodeTimestampDo(s) ==
  IF Tables[s.table].timestamp # <<>>
  THEN CallFormat([s EXCEPT !.pc = "ts_args"], Tables[s.table].timestamp[1].string,
                  "timestamp", s.below_enum)
  ELSE [s EXCEPT !.pc = "lookup"]

\* decode, lines 451-455, with the outcome of get_with_level
DecodeLookedUp(s, got) ==
  IF got = <<>> THEN Fail(Note(s, "lookup", "table"), "Malformed")
  ELSE CallFormat([Note(s, "lookup", "table") EXCEPT
                     !.pc = "args", !.level = got[1].lvl, !.format = got[1].format],
                  got[1].format, "root", s.below_enum)

\* a mutant: the index is looked up without asking for a level
DecodeLookupAnyTag(s) ==
  DecodeLookedUp(s, LET got == Table_get(s.table, s.index)
                    IN  IF got = <<>> THEN <<>>
                        ELSE <<[lvl |-> IF got[1].lvl = <<>> THEN "Info" ELSE got[1].lvl[1],
                                format |-> got[1].format]>>)

\* decode, lines 451-455: the index is looked up and the root format decoded
DecodeLookupDo(s) == DecodeLookedUp(s, get_with_level(s.table, s.index))

\* a mutant: the whole input is reported as consumed
consumed_all(s) == s.len

\* decode, line 470
consumed_of(s) == s.len - Len(s.bytes)

\* decode, lines 461-471: the frame and the consumed count
DecodeOk(s) ==
  [s EXCEPT
     !.pc = "done",
     !.result =
       [kind |-> "Ok", consumed |-> consumed_of(s),
        frame |-> <<[level |-> s.level, index |-> s.index,
                     timestamp_format |->
                       IF Tables[s.table].timestamp # <<>>
                       THEN <<Tables[s.table].timestamp[1].string>> ELSE <<>>,
                     timestamp_args |-> s.timestamp_args,
                     format |-> s.format, args |-> s.args]>>]]

\* after the final flush
DecodeFlushed(s) == IF s.pc = "done" THEN s ELSE DecodeOk(s)

\* decode, lines 456-471: the final flush and the frame
DecodeFinishDo(s) ==
  IF s.bools_tbd # <<>> THEN DecodeFlushed(read_and_unpack_bools(s)) ELSE DecodeOk(s)

\* decode_format returns to decode: lines 448 and 455
DecodeFormatReturnDo(s) ==
  IF Top(s).ret = "timestamp"
  THEN [s EXCEPT !.stack = Front(@), !.timestamp_args = Top(s).args, !.pc = "lookup"]
  ELSE [s EXCEPT !.stack = Front(@), !.args = Top(s).args, !.pc = "flush"]

\* decode_format is at the end of its loop
AtReturn(s, rets) ==
  /\ Running(s)
  /\ Top(s).k = "fmt"
  /\ Top(s).i > Len(Top(s).params)
  /\ Top(s).ret \in rets

(***************************************************************************)
(* Arguments (enum Arg).                                                   *)
(***************************************************************************)
ArgBool(cell) == [tag |-> "Bool", cell |-> cell]

ArgUxx(v) == [tag |-> "Uxx", v |-> v]

\* a signed value: its sign and its magnitude
ArgIxx(neg, v) == [tag |-> "Ixx", neg |-> neg, v |-> v]

ArgF32(bits) == [tag |-> "F32", v |-> bits]

ArgF64(bits) == [tag |-> "F64", v |-> bits]

ArgStr(utf8) == [tag |-> "Str", v |-> utf8]

ArgIStr(string) == [tag |-> "IStr", v |-> string]

ArgFormat(fmt, inner) == [tag |-> "Format", format |-> fmt, args |-> inner]

ArgFormatSlice(elements) == [tag |-> "FormatSlice", elements |-> elements]

ArgSlice(data) == [tag |-> "Slice", v |-> data]

ArgChar(c) == [tag |-> "Char", v |-> c]

ArgPreformatted(utf8) == [tag |-> "Preformatted", v |-> utf8]

(***************************************************************************)
(* Format references and enum variants.                                    *)
(***************************************************************************)
\* a mutant: a Build list records the formats below an enum too
build_appends_below_enum(s) == s.format_list.mode = "Build"

\* get_format, lines 589-590: the format read from the stream is recorded
build_appends(s) == s.format_list.mode = "Build" /\ ~s.below_enum

\* a mutant: a Use list is never consulted
use_list_never_serves(s) == FALSE

\* get_format, lines 576-577: a Use list is active and not exhausted
use_list_serves(s) ==
  s.format_list.mode = "Use" /\ s.format_list.cursor < Len(s.format_list.formats)

\* get_format, lines 584-594, with the outcome of the table lookup
get_format_found(s, r, found) ==
  IF found = <<>>
  THEN [s |-> Fail(Consume(s, r.n, "get_format"), "Malformed"), format |-> <<>>]
  ELSE IF build_appends(s)
  THEN [s |-> [s EXCEPT
                 !.bytes = Drop(@, r.n),
                 !.format_list.formats = Append(@, found[1]),
                 !.log = Append(@, Event(s, "get_format", Take(s.bytes, r.n), "stream+push"))],
        format |-> found]
  ELSE [s |-> Consume(s, r.n, "get_format"), format |-> found]

\* get_format, lines 583-594, with the outcome r of read_leb128
get_format_stream(s, r) ==
  IF r.res # "Ok" THEN [s |-> Fail(s, r.res), format |-> <<>>]
  ELSE get_format_found(s, r, get_without_level(s.table, r.val))

\* a mutant: the index is always read from the stream
get_format_from_stream(s) == get_format_stream(s, read_leb128(s.bytes))

\* a mutant: the list serves its entry and the cursor stays
get_format_cursor_kept(s) ==
  IF use_list_serves(s)
  THEN [s |-> Note(s, "get_format", "list"),
        format |-> <<s.format_list.formats[s.format_list.cursor + 1]>>]
  ELSE get_format_stream(s, read_leb128(s.bytes))

\* Decoder::get_format: [s |-> the state after, format |-> <<format>>, or <<>> on Err]
get_format(s) ==
  IF use_list_serves(s)
  THEN [s |-> [Note(s, "get_format", "list") EXCEPT !.format_list.cursor = @ + 1],
        format |-> <<s.format_list.formats[s.format_list.cursor + 1]>>]
  ELSE get_format_stream(s, read_leb128(s.bytes))

\* a mutant: the discriminant is always one byte
discriminant_width_u8(num_variants) == 1

\* the width in bytes of the discriminant of an enum with num_variants '|'
discriminant_width(num_variants) ==
  IF num_variants <= 255 THEN 1 ELSE IF num_variants <= 65535 THEN 2 ELSE 4

\* get_variant, lines 621-624: format.split('|').nth(discriminant)
get_variant_nth(s, variant) ==
  IF variant = <<>> THEN [s |-> Fail(s, "Malformed"), format |-> <<>>]
  ELSE [s |-> s, format |-> variant]

\* get_variant, lines 603-624, for a discriminant of w bytes
get_variant_read(s, fmt, w) ==
  IF Len(s.bytes) < w THEN [s |-> Fail(s, "UnexpectedEof"), format |-> <<>>]
  ELSE get_variant_nth(Consume(s, w, "get_variant"),
                       IF IsSmall(BigOfBytes(Take(s.bytes, w)))
                       THEN split_nth(fmt, Small(BigOfBytes(Take(s.bytes, w))))
                       ELSE <<>>)

\* Decoder::get_variant: [s, format |-> <<variant>>, or <<>> on Err]
get_variant(s, fmt) ==
  IF ~contains_pipe(fmt) THEN [s |-> Abort(s), format |-> <<>>]   \* the assert!
  ELSE get_variant_read(s, fmt, discriminant_width(count_pipes(fmt)))

(***************************************************************************)
(* decode_format: Type::Bool, Type::Format and their return.               *)
(***************************************************************************)
\* a mutant: the byte is read after every bool
flush_after_every_bool(s) == read_and_unpack_bools(s)

\* lines 733-736: the block is full
ParamBoolPushed(s) ==
  IF Len(s.bools_tbd) = MAX_NUM_BOOL_FLAGS THEN read_and_unpack_bools(s) ELSE s

\* lines 729-737
ParamBoolDo(s) ==
  ParamBoolPushed(PushArg([s EXCEPT !.cells = Append(@, FALSE),
                                    !.bools_tbd = Append(@, Len(s.cells) + 1)],
                          ArgBool(Len(s.cells) + 1)))

\* lines 749-752: the variant is decoded below the enum
ParamFormatVariant(v) ==
  IF v.format = <<>> THEN v.s
  ELSE CallFormat([v.s EXCEPT !.below_enum = TRUE], v.format[1], "enum", v.s.below_enum)

\* lines 745-759, with the outcome g of get_format
ParamFormatGot(g) ==
  IF g.format = <<>> THEN g.s
  ELSE IF contains_pipe(g.format[1]) THEN ParamFormatVariant(get_variant(g.s, g.format[1]))
  ELSE CallFormat(g.s, g.format[1], "format", g.s.below_enum)

\* lines 744-752 and 759: the format is resolved and decode_format is called
ParamFormatDo(s) == ParamFormatGot(get_format(s))

\* a mutant: below_enum is left as the variant's decode_format had it
FormatReturnKeepsBelowEnum(s) ==
  PushArg([s EXCEPT !.stack = Front(@)], ArgFormat(Top(s).format, Top(s).args))

\* lines 753-757 and 760-763: decode_format returned to a Type::Format arm
FormatReturnDo(s) ==
  PushArg([s EXCEPT !.stack = Front(@),
                    !.below_enum = IF Top(s).ret = "enum" THEN Top(s).saved ELSE @],
          ArgFormat(Top(s).format, Top(s).args))

(***************************************************************************)
(* decode_format_slice.                                                    *)
(***************************************************************************)
\* the least capacity whose byte size (40 bytes per FormatSliceElement) exceeds
\* isize::MAX: 0x0333_3333_3333_3334
CapacityLimit == <<52, 51, 51, 51, 51, 51, 51, 3>>

\* Vec::with_capacity(num_elements) panics with "capacity overflow"
capacity_overflow(num_elements) == ~BigLess(num_elements, CapacityLimit)

\* i < num_elements
IndexBelow(i, num_elements) == ~IsSmall(num_elements) \/ i < Small(num_elements)

\* the activation of decode_format_slice; `entered` is history: self.format_list when
\* the function was called
SliceFrame(fmt, saved_below_enum, num_elements, entered) ==
  [k |-> "slice", format |-> fmt, is_enum |-> contains_pipe(fmt), entered |-> entered,
   below_enum |-> saved_below_enum, num_elements |-> num_elements, i |-> 0,
   elements |-> <<>>, formats |-> <<>>, cursor |-> 0, busy |-> FALSE, branch |-> "",
   old |-> NoList, elem_format |-> <<>>]

\* lines 635-647, with the outcome g of get_format, called with the list `entered`
BeginSliceGot(g, num_elements, entered) ==
  IF g.format = <<>> THEN g.s
  ELSE IF capacity_overflow(num_elements) THEN Abort(g.s)   \* Vec::with_capacity
  ELSE [g.s EXCEPT
          !.below_enum = IF contains_pipe(g.format[1]) THEN TRUE ELSE @,
          !.stack = Append(@, SliceFrame(g.format[1], g.s.below_enum, num_elements,
                                         entered))]

\* a mutant: the format is resolved even when there is no element
BeginSliceResolvesFirst(s, num_elements) ==
  BeginSliceGot(get_format(s), num_elements, s.format_list)

\* lines 631-647: the call of decode_format_slice up to its loop
BeginSlice(s, num_elements) ==
  IF num_elements = <<>> THEN PushArg(s, ArgFormatSlice(<<>>))
  ELSE BeginSliceGot(get_format(s), num_elements, s.format_list)

\* lines 740-741, with the outcome r of read_leb128
ParamFormatSliceRead(s, r) ==
  IF r.res # "Ok" THEN Fail(s, r.res) ELSE BeginSlice(Consume(s, r.n, "count"), r.val)

\* lines 739-741
ParamFormatSliceDo(s) == ParamFormatSliceRead(s, read_leb128(s.bytes))

\* lines 904-905
ParamFormatArrayDo(s) == BeginSlice(s, BigOfNat(Param(s).ty.a))

\* the loop of decode_format_slice is about to decode element i
AtElement(s) ==
  /\ Running(s)
  /\ Top(s).k = "slice"
  /\ ~Top(s).busy
  /\ IndexBelow(Top(s).i, Top(s).num_elements)

\* lines 657-696: which list the element is decoded with
element_branch(list, is_first) ==
  IF list.mode = "Use" THEN "use"
  ELSE IF list.mode = "Build" THEN (IF is_first THEN "build_first" ELSE "build_rest")
  ELSE IF is_first THEN "none_first" ELSE "none_rest"

\* lines 663, 669, 679 and 691: the list the element is decoded with
element_list(list, branch, formats, cursor) ==
  CASE branch = "build_rest" -> UseList(list.formats, cursor)
    [] branch = "none_first" -> BuildList(formats)
    [] branch = "none_rest" -> UseList(formats, 0)
    [] OTHER -> list

\* lines 657-696 up to the call of decode_format, on branch `branch` with `cursor`
SliceElementOn(s, f, fmt, branch, cursor) ==
  CallFormat([s EXCEPT
                !.format_list = element_list(s.format_list, branch, f.formats, cursor),
                !.stack[Len(s.stack)] =
                  [f EXCEPT !.busy = TRUE, !.branch = branch, !.cursor = cursor,
                            !.old = s.format_list, !.elem_format = fmt]],
             fmt, "element", s.below_enum)

\* lines 657-696, with the format v of the element
SliceElementVariant(v, f) ==
  IF v.format = <<>> THEN v.s
  ELSE SliceElementOn(v.s, f, v.format[1], element_branch(v.s.format_list, f.i = 0),
                      IF element_branch(v.s.format_list, f.i = 0) = "build_first"
                      THEN Len(v.s.format_list.formats) ELSE f.cursor)

\* a mutant: the discriminant is read for the first element only, the others take
\* its variant
SliceElementFirstVariant(s) ==
  SliceElementVariant(IF Top(s).is_enum /\ Top(s).i = 0 THEN get_variant(s, Top(s).format)
                      ELSE IF Top(s).is_enum
                      THEN [s |-> s, format |-> <<Top(s).elements[1].format>>]
                      ELSE [s |-> s, format |-> <<Top(s).format>>],
                      Top(s))

\* lines 648-696 up to the call of decode_format for element i
SliceElementDo(s) ==
  SliceElementVariant(IF Top(s).is_enum THEN get_variant(s, Top(s).format)
                      ELSE [s |-> s, format |-> <<Top(s).format>>],
                      Top(s))

\* the slice's frame once element e is decoded
ElementPushed(f, e) ==
  [f EXCEPT !.busy = FALSE, !.i = @ + 1,
            !.elements = Append(@, [format |-> f.elem_format, args |-> e.args])]

\* a mutant: the list the element was decoded with stays in place
ElementReturnKeepsList(s, f, e) ==
  [s EXCEPT !.stack = Append(Front(Front(@)), ElementPushed(f, e))]

\* lines 659-698 after decode_format returned, for the slice's frame f and the
\* element's frame e
ElementReturnTo(s, f, e) ==
  IF f.branch \in {"build_rest", "none_rest"}
  THEN [s EXCEPT !.format_list = f.old, !.stack = Append(Front(Front(@)), ElementPushed(f, e))]
  ELSE IF f.branch = "none_first"
  THEN IF s.format_list.mode # "Build" THEN Abort(s)   \* unreachable!()
       ELSE [s EXCEPT
               !.format_list = f.old,
               !.stack = Append(Front(Front(@)),
                                [ElementPushed(f, e) EXCEPT !.formats = s.format_list.formats])]
  ELSE [s EXCEPT !.stack = Append(Front(Front(@)), ElementPushed(f, e))]

\* lines 659-698 after decode_format returned: the list is restored, the element pushed
ElementReturnDo(s) == ElementReturnTo(s, s.stack[Len(s.stack) - 1], Top(s))

\* the loop of decode_format_slice is over
AtSliceEnd(s) ==
  /\ Running(s)
  /\ Top(s).k = "slice"
  /\ ~Top(s).busy
  /\ ~IndexBelow(Top(s).i, Top(s).num_elements)

\* lines 701-705 and 742 / 906: below_enum is restored and the argument pushed
SliceReturnDo(s) ==
  PushArg([s EXCEPT !.stack = Front(@),
                    !.below_enum = IF Top(s).is_enum THEN Top(s).below_enum ELSE @],
          ArgFormatSlice(Top(s).elements))

(***************************************************************************)
(* decode_format: the scalar types.                                        *)
(***************************************************************************)
IntTypes == {"U8", "I8", "U16", "I16", "U24", "U32", "I32", "U64", "I64", "U128", "I128"}

FloatTypes == {"F32", "F64"}

\* the bytes a fixed-width type takes on the wire
width_of(t) ==
  CASE t \in {"U8", "I8"} -> 1
    [] t \in {"U16", "I16"} -> 2
    [] t = "U24" -> 3
    [] t \in {"U32", "I32", "F32"} -> 4
    [] t \in {"U64", "I64", "F64"} -> 8
    [] t \in {"U128", "I128"} -> 16

RECURSIVE AddOne(_)
\* bs + 1 on little-endian digits of a fixed width (the carry out is dropped)
AddOne(bs) ==
  IF bs = <<>> THEN <<>>
  ELSE IF bs[1] = 255 THEN <<0>> \o AddOne(Tail(bs))
  ELSE <<bs[1] + 1>> \o Tail(bs)

\* a mutant: the bytes are widened without their sign
signed_of_bytes_zero_extended(bs) == ArgIxx(FALSE, Canon(bs))

\* the value of little-endian two's complement bytes, widened to i128
signed_of_bytes(bs) ==
  IF Last(bs) >= 128
  THEN ArgIxx(TRUE, Canon(AddOne([j \in 1 .. Len(bs) |-> 255 - bs[j]])))
  ELSE ArgIxx(FALSE, Canon(bs))

\* the argument a fixed-width type makes of its bytes
int_arg(t, data) ==
  CASE t \in {"I8", "I16", "I32", "I64", "I128"} -> signed_of_bytes(data)
    [] t = "F32" -> ArgF32(BigOfBytes(data))
    [] t = "F64" -> ArgF64(BigOfBytes(data))
    [] OTHER -> ArgUxx(BigOfBytes(data))

\* a mutant: the read wants one byte more than the value has
ParamIntReadAhead(s, t, w) ==
  IF Len(s.bytes) < w + 1 THEN Fail(s, "UnexpectedEof")
  ELSE PushArg(Consume(s, w, "arg"), int_arg(t, Take(s.bytes, w)))

\* a mutant: a short read is reported as Malformed
ParamIntReadShortMalformed(s, t, w) ==
  IF Len(s.bytes) < w THEN Fail(s, "Malformed")
  ELSE PushArg(Consume(s, w, "arg"), int_arg(t, Take(s.bytes, w)))

\* lines 724-727, 766-785, 791-812 and 817-824, for a type t of w bytes
ParamIntRead(s, t, w) ==
  IF Len(s.bytes) < w THEN Fail(s, "UnexpectedEof")
  ELSE PushArg(Consume(s, w, "arg"), int_arg(t, Take(s.bytes, w)))

\* lines 724-727, 766-785, 791-812 and 817-824: read_uN / read_iN::<LE>
ParamIntDo(s) == ParamIntRead(s, Param(s).ty.t, width_of(Param(s).ty.t))

\* v >> 1 on a u64
BigShr1(v) == Canon([j \in 1 .. Len(v) |-> v[j] \div 2 + 128 * (Digit(v, j + 1) % 2)])

\* a mutant: an odd number decodes to -(u >> 1)
zigzag_negative_half(half) == half

\* the magnitude of !(half) = -(half + 1)
zigzag_negative(half) == Canon(AddOne([j \in 1 .. 9 |-> Digit(half, j)]))

\* zigzag_decode: (unsigned >> 1) as i64 ^ -((unsigned & 1) as i64)
zigzag_decode(unsigned) ==
  IF Digit(unsigned, 1) % 2 = 1
  THEN ArgIxx(TRUE, zigzag_negative(BigShr1(unsigned)))
  ELSE ArgIxx(FALSE, BigShr1(unsigned))

\* lines 786-790 and 813-816, with the outcome r of read_leb128
ParamLebRead(s, r) ==
  IF r.res # "Ok" THEN Fail(s, r.res)
  ELSE PushArg(Consume(s, r.n, "arg"),
               IF Param(s).ty.t = "Isize" THEN zigzag_decode(r.val) ELSE ArgUxx(r.val))

\* lines 786-790 and 813-816: Isize and Usize
ParamLebDo(s) == ParamLebRead(s, read_leb128(s.bytes))

\* a mutant: as many bytes are read as the truncated field has
bitfield_read_width_exact(size_after_truncation) == size_after_truncation

\* the bytes read for size_after_truncation octets: lines 832-854
bitfield_read_width(size_after_truncation) ==
  CASE size_after_truncation \in 1 .. 4 -> size_after_truncation
    [] size_after_truncation \in 5 .. 8 -> 8
    [] size_after_truncation \in 9 .. 16 -> 16
    [] OTHER -> 0   \* unreachable!()

\* lines 832-859, for a read of w bytes
ParamBitFieldRead(s, lowest_byte, w) ==
  IF w = 0 THEN Abort(s)                                        \* unreachable!()
  ELSE IF Len(s.bytes) < w THEN Fail(s, "UnexpectedEof")
  ELSE IF lowest_byte * 8 >= 128 THEN Abort(Consume(s, w, "arg"))   \* shift overflow
  ELSE PushArg(Consume(s, w, "arg"),
               ArgUxx(Canon(Take(Repeat(0, lowest_byte) \o Take(s.bytes, w) \o Repeat(0, 16), 16))))

\* lines 825-831, for the range start..end
ParamBitFieldRange(s, start, end) ==
  IF end = 0 \/ (end - 1) \div 8 < start \div 8 THEN Abort(s)   \* u8 underflow
  ELSE ParamBitFieldRead(s, start \div 8,
                         bitfield_read_width((end - 1) \div 8 - start \div 8 + 1))

\* lines 825-859
ParamBitFieldDo(s) == ParamBitFieldRange(s, Param(s).ty.a, Param(s).ty.b)

\* lines 869-873: the bytes of the string are validated
ParamStrBytes(s, arg_str_bytes) ==
  IF ~utf8_valid(arg_str_bytes) THEN Fail(s, "Malformed") ELSE PushArg(s, ArgStr(arg_str_bytes))

\* a mutant: the bytes that are there are validated before their number is checked
ParamStrLenValidatedFirst(s, str_len) ==
  IF ~utf8_valid(s.bytes) THEN Fail(s, "Malformed")
  ELSE IF ~IsSmall(str_len) \/ Small(str_len) > Len(s.bytes) THEN Fail(s, "UnexpectedEof")
  ELSE ParamStrBytes(Consume(s, Small(str_len), "arg"), Take(s.bytes, Small(str_len)))

\* lines 862-873, once str_len is read
ParamStrLen(s, str_len) ==
  IF ~IsSmall(str_len) \/ Small(str_len) > Len(s.bytes) THEN Fail(s, "UnexpectedEof")
  ELSE ParamStrBytes(Consume(s, Small(str_len), "arg"), Take(s.bytes, Small(str_len)))

\* lines 861-873, with the outcome r of read_leb128
ParamStrRead(s, r) ==
  IF r.res # "Ok" THEN Fail(s, r.res) ELSE ParamStrLen(Consume(s, r.n, "arg"), r.val)

\* lines 860-874
ParamStrDo(s) == ParamStrRead(s, read_leb128(s.bytes))

\* lines 878-883, with the outcome of the lookup
ParamIStrFound(s, string) ==
  IF string = <<>> THEN Fail(s, "Malformed") ELSE PushArg(s, ArgIStr(string[1]))

\* lines 876-883, with the outcome r of read_leb128
ParamIStrRead(s, r) ==
  IF r.res # "Ok" THEN Fail(s, r.res)
  ELSE ParamIStrFound(Consume(s, r.n, "arg"), get_without_level(s.table, r.val))

\* lines 875-884
ParamIStrDo(s) == ParamIStrRead(s, read_leb128(s.bytes))

\* lines 888-894, once num_elements is read
ParamU8SliceLen(s, num_elements) ==
  IF ~IsSmall(num_elements) \/ Small(num_elements) > Len(s.bytes)
  THEN Fail(s, "UnexpectedEof")
  ELSE PushArg(Consume(s, Small(num_elements), "arg"),
               ArgSlice(Take(s.bytes, Small(num_elements))))

\* lines 887-894, with the outcome r of read_leb128
ParamU8SliceRead(s, r) ==
  IF r.res # "Ok" THEN Fail(s, r.res) ELSE ParamU8SliceLen(Consume(s, r.n, "arg"), r.val)

\* lines 885-895
ParamU8SliceDo(s) == ParamU8SliceRead(s, read_leb128(s.bytes))

\* lines 896-903
ParamU8ArrayDo(s) ==
  IF Param(s).ty.a > Len(s.bytes) THEN Fail(s, "UnexpectedEof")
  ELSE PushArg(Consume(s, Param(s).ty.a, "arg"), ArgSlice(Take(s.bytes, Param(s).ty.a)))

\* std::char::from_u32(data).is_some() on the little-endian bytes of data
is_char(data) ==
  /\ data[4] = 0
  /\ data[3] <= 16
  /\ ~(data[3] = 0 /\ data[2] \in 216 .. 223)

\* lines 908-912
ParamCharDo(s) ==
  IF Len(s.bytes) < 4 THEN Fail(s, "UnexpectedEof")
  ELSE IF ~is_char(Take(s.bytes, 4)) THEN Fail(Consume(s, 4, "arg"), "Malformed")
  ELSE PushArg(Consume(s, 4, "arg"), ArgChar(BigOfBytes(Take(s.bytes, 4))))

\* a mutant: the text goes up to the last 0xff of the bytes given
position_last_ff(bs) ==
  IF \E k \in 1 .. Len(bs) : bs[k] = 255
  THEN CHOOSE k \in 1 .. Len(bs) : bs[k] = 255 /\ \A j \in k + 1 .. Len(bs) : bs[j] # 255
  ELSE 0

\* self.bytes.iter().position(|b| *b == 0xff): 0 when there is none, else 1-based
position_ff(bs) ==
  IF \E k \in 1 .. Len(bs) : bs[k] = 255
  THEN CHOOSE k \in 1 .. Len(bs) : bs[k] = 255 /\ \A j \in 1 .. k - 1 : bs[j] # 255
  ELSE 0

\* a mutant: the terminator is left in the stream
ParamPreformattedKeepsTerminator(s, end) ==
  IF end = 0 THEN Fail(s, "UnexpectedEof")
  ELSE IF ~utf8_valid(Take(s.bytes, end - 1)) THEN Fail(s, "Malformed")
  ELSE PushArg(Consume(s, end - 1, "arg"), ArgPreformatted(Take(s.bytes, end - 1)))

\* lines 916-925, with the position `end` of the terminator
ParamPreformattedEnd(s, end) ==
  IF end = 0 THEN Fail(s, "UnexpectedEof")
  ELSE IF ~utf8_valid(Take(s.bytes, end - 1)) THEN Fail(s, "Malformed")
  ELSE PushArg(Consume(s, end, "arg"), ArgPreformatted(Take(s.bytes, end - 1)))

\* lines 913-926
ParamPreformattedDo(s) == ParamPreformattedEnd(s, position_ff(s.bytes))

(***************************************************************************)
(* The formatter: format_args writes one item for each fragment.           *)
(***************************************************************************)
\* bit k, from 0 to 127, of a u128
BitOf(x, k) == Bit(Digit(x, k \div 8 + 1), k % 8)

\* the byte of the bits 8j .. 8j+7 of a sequence of 128 bits (bit 0 first)
ByteOfBits(bits, j) ==
  bits[8 * j + 1] + 2 * bits[8 * j + 2] + 4 * bits[8 * j + 3] + 8 * bits[8 * j + 4]
    + 16 * bits[8 * j + 5] + 32 * bits[8 * j + 6] + 64 * bits[8 * j + 7] + 128 * bits[8 * j + 8]

\* the u128 with these 128 bits
U128OfBits(bits) == Canon([j \in 1 .. 16 |-> ByteOfBits(bits, j - 1)])

\* x << n on u128, n < 128: the bits shifted out are lost
shl_u128(x, n) == U128OfBits([k \in 1 .. 128 |-> IF k > n THEN BitOf(x, k - 1 - n) ELSE 0])

\* x >> n on u128, n < 128
shr_u128(x, n) ==
  U128OfBits([k \in 1 .. 128 |-> IF k + n <= 128 THEN BitOf(x, k - 1 + n) ELSE 0])

\* a mutant: the bits above the range are not cleared
bitfields_unmasked(x, start, end) == shr_u128(x, start)

\* format_args_real, lines 1068-1071, for a range with end <= 128:
\* left_zeroes = 128 - end, right_zeroes = left_zeroes + start
bitfields(x, start, end) == shr_u128(shl_u128(x, 128 - end), 128 - end + start)

\* what is written for a literal
Text(text) == [w |-> "text", text |-> text]

\* format_u128: the number x in the notation of the hint
format_u128(x, hint) == [w |-> "u128", v |-> x, hint |-> hint]

\* lines 1073-1080: bitfields.to_be_bytes() without its first skip bytes, as a byte string
format_bitfield_bytes(x, skip, hint) ==
  [w |-> "bytes", v |-> [i \in 1 .. 16 - skip |-> Digit(x, 17 - skip - i)], hint |-> hint]

\* lines 1062-1087: an Arg::Uxx under the parameter param
format_uxx(x, param, hint) ==
  IF param.ty.t = "BitField"
  THEN IF hint = "Ascii"
       THEN format_bitfield_bytes(bitfields(x, param.ty.a, param.ty.b),
                                  (128 - param.ty.b + param.ty.a) \div 8, hint)
       ELSE format_u128(bitfields(x, param.ty.a, param.ty.b), hint)
  ELSE format_u128(x, hint)

\* format_i128: the signed number in the notation of the hint
format_i128(x, hint) == [w |-> "i128", neg |-> x.neg, v |-> x.v, hint |-> hint]

\* format_bytes: the bytes in the notation of the hint
format_bytes(bs, hint) == [w |-> "bytes", v |-> bs, hint |-> hint]

\* a panic of the formatter
Panic(message) == [w |-> "panic", message |-> message]

\* line 1097: some element's format is "{=u8}"
some_u8_element(elements) ==
  \E k \in DOMAIN elements : elements[k].format = <<(<<Parameter(0, Ty("U8"), "None")>>)>>

\* lines 1101-1104: e.args is [Arg::Uxx(v)]
one_uxx(e) == Len(e.args) = 1 /\ e.args[1].tag = "Uxx"

\* lines 1099-1108: the elements as bytes
ascii_elements(elements, hint) ==
  IF \E k \in DOMAIN elements : ~one_uxx(elements[k])
  THEN Panic("FormatSlice should only contain one argument")
  ELSE IF \E k \in DOMAIN elements : Len(elements[k].args[1].v) > 1
  THEN Panic("the value must be in u8 range")           \* u8::try_from(*v).expect(..)
  ELSE format_bytes([k \in DOMAIN elements |-> Digit(elements[k].args[1].v, 1)], hint)

RECURSIVE format_args(_, _, _)

\* lines 1093-1125: an Arg::FormatSlice
format_slice(elements, hint) ==
  IF hint = "Ascii" /\ some_u8_element(elements) THEN ascii_elements(elements, hint)
  ELSE [w |-> "slice",
        elements |-> [k \in DOMAIN elements |->
                        format_args(elements[k].format, elements[k].args, hint)]]

\* lines 1062-1129: the argument arg under the parameter param; Arg::Bool, the floats,
\* the strings, Arg::Slice and Arg::Char are written by their kind
format_arg(arg, param, hint) ==
  CASE arg.tag = "Uxx" -> format_uxx(arg.v, param, hint)
    [] arg.tag = "Ixx" -> format_i128(arg, hint)
    [] arg.tag = "Format" -> [w |-> "format", items |-> format_args(arg.format, arg.args, hint)]
    [] arg.tag = "FormatSlice" -> format_slice(arg.elements, hint)
    [] arg.tag = "Slice" -> format_bytes(arg.v, hint)
    [] OTHER -> [w |-> arg.tag, v |-> arg, hint |-> hint]

\* lines 1057-1130: the argument args[param.index] under the parameter param
format_param(param, arg_list, hint) ==
  IF param.index >= Len(arg_list) THEN Panic("index out of bounds")
  ELSE format_arg(arg_list[param.index + 1], param, hint)

\* format_args_real, lines 1050-1133: the items written, one for each fragment
format_args(fmt, arg_list, parent_hint) ==
  [p \in 1 .. Len(parse(fmt)) |->
     IF parse(fmt)[p].frag = "Literal" THEN Text(parse(fmt)[p].text)
     ELSE format_param(parse(fmt)[p], arg_list,
                       IF parse(fmt)[p].hint # "None" THEN parse(fmt)[p].hint ELSE parent_hint)]

(***************************************************************************)
(* The text written: a sequence of pieces, each a character or a literal.  *)
(***************************************************************************)
RECURSIVE RemFrom(_, _, _)
\* the bytes j .. of x (the most significant last) modulo d, d <= 10^6
RemFrom(x, j, d) == IF j > Len(x) THEN 0 ELSE (RemFrom(x, j + 1, d) * 256 + x[j]) % d

\* x / d on u128, by long division from the most significant byte
div_u128(x, d) == Canon([j \in 1 .. Len(x) |-> (RemFrom(x, j + 1, d) * 256 + x[j]) \div d])

\* x % d on u128
rem_u128(x, d) == RemFrom(x, 1, d)

DigitChars == <<"0", "1", "2", "3", "4", "5", "6", "7", "8", "9", "a", "b", "c", "d", "e", "f">>

UpperDigitChars ==
  <<"0", "1", "2", "3", "4", "5", "6", "7", "8", "9", "A", "B", "C", "D", "E", "F">>

RECURSIVE Numeral(_, _, _)
\* the digits of x > 0 in a base, the most significant first
Numeral(x, base, chars) ==
  IF x = <<>> THEN <<>>
  ELSE Append(Numeral(div_u128(x, base), base, chars), Text(chars[rem_u128(x, base) + 1]))

\* write!(buf, "{}", x) and the digits of {:#b}, {:#x}, {:#X}
numeral_u128(x, base, chars) == IF x = <<>> THEN <<Text("0")>> ELSE Numeral(x, base, chars)

\* {:06}: zeros before the digits up to the width
pad_zeros(digits, width) ==
  [k \in 1 .. width - Len(digits) |-> Text("0")] \o digits

\* a mutant: the microseconds are written without padding
microseconds_unpadded(x) ==
  numeral_u128(div_u128(x, 1000000), 10, DigitChars) \o <<Text(".")>>
    \o numeral_u128(BigOfNat(rem_u128(x, 1000000)), 10, DigitChars)

\* format_u128, lines 967-971: seconds = x / 1_000_000, micros = x % 1_000_000,
\* write!(buf, "{}.{:06}", seconds, micros)
microseconds(x) ==
  numeral_u128(div_u128(x, 1000000), 10, DigitChars) \o <<Text(".")>>
    \o pad_zeros(numeral_u128(BigOfNat(rem_u128(x, 1000000)), 10, DigitChars), 6)

\* format_u128, lines 960-973: what is written for x under the hint
write_u128(x, hint) ==
  CASE hint = "Binary" -> <<Text("0b")>> \o numeral_u128(x, 2, DigitChars)
    [] hint = "Hexadecimal" -> <<Text("0x")>> \o numeral_u128(x, 16, DigitChars)
    [] hint = "HexadecimalUpper" -> <<Text("0x")>> \o numeral_u128(x, 16, UpperDigitChars)
    [] hint = "Microseconds" -> microseconds(x)
    [] OTHER -> numeral_u128(x, 10, DigitChars)

\* the u128 with the bits of the i128 -magnitude
twos_complement(magnitude) ==
  Canon(AddOne([j \in 1 .. 16 |-> 255 - Digit(magnitude, j)]))

\* the bits of the signed value as a u128
bits_i128(neg, magnitude) == IF neg THEN twos_complement(magnitude) ELSE magnitude

\* format_i128, lines 981-989: what is written for the signed value under the hint
write_i128(neg, magnitude, hint) ==
  CASE hint = "Binary" -> <<Text("0b")>> \o numeral_u128(bits_i128(neg, magnitude), 2, DigitChars)
    [] hint = "Hexadecimal" ->
         <<Text("0x")>> \o numeral_u128(bits_i128(neg, magnitude), 16, DigitChars)
    [] hint = "HexadecimalUpper" ->
         <<Text("0x")>> \o numeral_u128(bits_i128(neg, magnitude), 16, UpperDigitChars)
    [] OTHER -> (IF neg THEN <<Text("-")>> ELSE <<>>) \o numeral_u128(magnitude, 10, DigitChars)

\* a character that is written as it is
Char(code) == [w |-> "char", code |-> code]

\* format_bytes, lines 1003-1019: one byte of a byte string literal
escaped(byte) ==
  CASE byte = 9 -> <<Text("\\t")>>
    [] byte = 10 -> <<Text("\\n")>>
    [] byte = 13 -> <<Text("\\r")>>
    [] byte = 32 -> <<Text(" ")>>
    [] byte = 34 -> <<Text("\\\"")>>
    [] byte = 92 -> <<Text("\\\\")>>
    [] byte > 32 /\ byte < 127 -> <<Char(byte)>>                    \* is_ascii_graphic
    [] OTHER -> <<Text("\\x"), Text(DigitChars[(byte \div 16) + 1]),
                  Text(DigitChars[(byte % 16) + 1])>>

RECURSIVE Joined(_, _)
\* the texts one after the other, with the separator between them
Joined(texts, separator) ==
  IF texts = <<>> THEN <<>>
  ELSE IF Len(texts) = 1 THEN texts[1]
  ELSE texts[1] \o separator \o Joined(Tail(texts), separator)

\* format_bytes, lines 998-1038: what is written for the bytes under the hint
write_bytes(bs, hint) ==
  CASE hint = "Ascii" ->
         <<Text("b\"")>> \o Joined([k \in DOMAIN bs |-> escaped(bs[k])], <<>>) \o <<Text("\"")>>
    [] hint \in {"Binary", "Hexadecimal", "HexadecimalUpper"} ->
         <<Text("[")>>
           \o Joined([k \in DOMAIN bs |-> write_u128(BigOfNat(bs[k]), hint)], <<Text(", ")>>)
           \o <<Text("]")>>
    [] OTHER ->
         <<Text("[")>>
           \o Joined([k \in DOMAIN bs |-> write_u128(BigOfNat(bs[k]), "None")], <<Text(", ")>>)
           \o <<Text("]")>>

\* a piece of text that is not a panic
NoPanic(item) == item.w # "panic"

RECURSIVE written(_, _)
\* the text of the items of format_args, with the values the Bool cells hold; a panic
\* stays in the text as a piece of its own
written(items, cell_values) ==
  IF items = <<>> THEN <<>>
  ELSE (CASE items[1].w = "text" -> <<items[1]>>
          [] items[1].w = "u128" -> write_u128(items[1].v, items[1].hint)
          [] items[1].w = "i128" -> write_i128(items[1].neg, items[1].v, items[1].hint)
          [] items[1].w = "bytes" -> write_bytes(items[1].v, items[1].hint)
          [] items[1].w = "format" -> written(items[1].items, cell_values)
          [] items[1].w = "slice" ->
               <<Text("[")>>
                 \o Joined([k \in DOMAIN items[1].elements |->
                              written(items[1].elements[k], cell_values)], <<Text(", ")>>)
                 \o <<Text("]")>>
          [] items[1].w = "Bool" ->
               <<Text(IF cell_values[items[1].v.cell] THEN "true" ELSE "false")>>
          [] OTHER -> <<items[1]>>)
       \o written(Tail(items), cell_values)

\* the String of format_args, or its panic
string_of(text) ==
  IF \A k \in DOMAIN text : NoPanic(text[k]) THEN [w |-> "string", text |-> text]
  ELSE [w |-> "panic", text |-> <<>>]

\* DisplayFrame::fmt, lines 298-305 with colored = false
level_label(lvl) ==
  CASE lvl = "Trace" -> "TRACE"
    [] lvl = "Debug" -> "DEBUG"
    [] lvl = "Info" -> "INFO"
    [] lvl = "Warn" -> "WARN"
    [] lvl = "Error" -> "ERROR"

\* a mutant: no space after the timestamp
timestamp_text_unspaced(frame, cell_values) ==
  IF frame.timestamp_format = <<>> THEN <<>>
  ELSE written(format_args(frame.timestamp_format[1], frame.timestamp_args, "None"), cell_values)

\* DisplayFrame::fmt, lines 308-312: format!("{} ", format_args(..)), or nothing
timestamp_text(frame, cell_values) ==
  IF frame.timestamp_format = <<>> THEN <<>>
  ELSE written(format_args(frame.timestamp_format[1], frame.timestamp_args, "None"), cell_values)
         \o <<Text(" ")>>

\* DisplayMessage::fmt, lines 274-277
message_text(frame, cell_values) ==
  written(format_args(frame.format, frame.args, "None"), cell_values)

\* DisplayFrame::fmt with colored = false: write!(f, "{}{} {}", timestamp, level, args)
display_text(frame, cell_values) ==
  string_of(timestamp_text(frame, cell_values)
              \o <<Text(level_label(frame.level)), Text(" ")>>
              \o message_text(frame, cell_values))

(***************************************************************************)
(* decode as a function of its arguments: the steps below, run to the end. *)
(***************************************************************************)
\* the one step a running call can take
Step(s) ==
  CASE s.pc = "timestamp" -> DecodeTimestampDo(s)
    [] s.pc = "lookup" -> DecodeLookupDo(s)
    [] s.pc = "flush" -> DecodeFinishDo(s)
    [] AtReturn(s, {"timestamp", "root"}) -> DecodeFormatReturnDo(s)
    [] AtReturn(s, {"enum", "format"}) -> FormatReturnDo(s)
    [] AtReturn(s, {"element"}) -> ElementReturnDo(s)
    [] AtElement(s) -> SliceElementDo(s)
    [] AtSliceEnd(s) -> SliceReturnDo(s)
    [] AtParam(s, {"Bool"}) -> ParamBoolDo(s)
    [] AtParam(s, {"Format"}) -> ParamFormatDo(s)
    [] AtParam(s, {"FormatSlice"}) -> ParamFormatSliceDo(s)
    [] AtParam(s, {"FormatArray"}) -> ParamFormatArrayDo(s)
    [] AtParam(s, IntTypes \cup FloatTypes) -> ParamIntDo(s)
    [] AtParam(s, {"Usize", "Isize"}) -> ParamLebDo(s)
    [] AtParam(s, {"BitField"}) -> ParamBitFieldDo(s)
    [] AtParam(s, {"Str"}) -> ParamStrDo(s)
    [] AtParam(s, {"IStr"}) -> ParamIStrDo(s)
    [] AtParam(s, {"U8Slice"}) -> ParamU8SliceDo(s)
    [] AtParam(s, {"U8Array"}) -> ParamU8ArrayDo(s)
    [] AtParam(s, {"Char"}) -> ParamCharDo(s)
    [] AtParam(s, {"Debug", "Display"}) -> ParamPreformattedDo(s)

RECURSIVE Run(_)
\* the steps of a call up to its return
Run(s) == IF s.pc = "done" THEN s ELSE Run(Step(s))

\* decode(bytes, table): what it returns
decode(t, b) == Run(DecodeDo(t, b)).result

(***************************************************************************)
(* The state machine.                                                      *)
(***************************************************************************)
Init ==
  /\ pc = "idle"
  /\ table = "plain"
  /\ input = <<>>
  /\ len = 0
  /\ bytes = <<>>
  /\ index = <<>>
  /\ level = ""
  /\ format = <<>>
  /\ timestamp_args = <<>>
  /\ args = <<>>
  /\ format_list = NoList
  /\ below_enum = FALSE
  /\ bools_tbd = <<>>
  /\ cells = <<>>
  /\ stack = <<>>
  /\ result = NoResult
  /\ log = <<>>
  /\ call = NoCall

\* a call of decode(bytes, table)
Decode ==
  /\ pc = "idle"
  /\ \E f \in Families : \E h \in f.heads : \E k \in 0 .. f.n : \E b \in [1 .. k -> f.alphabet] :
       Set(DecodeDo(f.table, h \o b))

DecodeTimestamp == pc = "timestamp" /\ Set(DecodeTimestampDo(St))

DecodeLookup == pc = "lookup" /\ Set(DecodeLookupDo(St))

DecodeFinish == pc = "flush" /\ Set(DecodeFinishDo(St))

\* decode has returned and its Decoder is dropped: the vectors are freed; below_enum
\* and the kind of the list stay as the call left them until the next call makes its
\* own Decoder
AfterReturn(s) ==
  [Idle EXCEPT !.below_enum = s.below_enum,
               !.format_list = [NoList EXCEPT !.mode = s.format_list.mode]]

\* the caller is done with the frame
DecodeReturn == pc = "done" /\ SetDecoder(AfterReturn(St)) /\ call' = NoCall

DecodeFormatReturn == AtReturn(St, {"timestamp", "root"}) /\ Set(DecodeFormatReturnDo(St))

ParamBool == AtParam(St, {"Bool"}) /\ Set(ParamBoolDo(St))

ParamFormat == AtParam(St, {"Format"}) /\ Set(ParamFormatDo(St))

FormatReturn == AtReturn(St, {"enum", "format"}) /\ Set(FormatReturnDo(St))

ParamFormatSlice == AtParam(St, {"FormatSlice"}) /\ Set(ParamFormatSliceDo(St))

ParamFormatArray == AtParam(St, {"FormatArray"}) /\ Set(ParamFormatArrayDo(St))

SliceElement == AtElement(St) /\ Set(SliceElementDo(St))

ElementReturn == AtReturn(St, {"element"}) /\ Set(ElementReturnDo(St))

SliceReturn == AtSliceEnd(St) /\ Set(SliceReturnDo(St))

ParamInt == AtParam(St, IntTypes \cup FloatTypes) /\ Set(ParamIntDo(St))

ParamLeb == AtParam(St, {"Usize", "Isize"}) /\ Set(ParamLebDo(St))

ParamBitField == AtParam(St, {"BitField"}) /\ Set(ParamBitFieldDo(St))

ParamStr == AtParam(St, {"Str"}) /\ Set(ParamStrDo(St))

ParamIStr == AtParam(St, {"IStr"}) /\ Set(ParamIStrDo(St))

ParamU8Slice == AtParam(St, {"U8Slice"}) /\ Set(ParamU8SliceDo(St))

ParamU8Array == AtParam(St, {"U8Array"}) /\ Set(ParamU8ArrayDo(St))

ParamChar == AtParam(St, {"Char"}) /\ Set(ParamCharDo(St))

ParamPreformatted == AtParam(St, {"Debug", "Display"}) /\ Set(ParamPreformattedDo(St))

\* Frame::display(false).to_string(), lines 239-244 and 295-318, on the frame that
\* decode returned
Display ==
  /\ pc = "done"
  /\ result.kind = "Ok"
  /\ call = NoCall
  /\ call' = [fn |-> "display", arg |-> result.frame[1],
              out |-> display_text(result.frame[1], cells), done |-> TRUE]
  /\ UNCHANGED decoder_vars

Next ==
  \/ Decode
  \/ Display
  \/ DecodeTimestamp
  \/ DecodeLookup
  \/ DecodeFinish
  \/ DecodeReturn
  \/ DecodeFormatReturn
  \/ ParamBool
  \/ ParamFormat
  \/ FormatReturn
  \/ ParamFormatSlice
  \/ ParamFormatArray
  \/ SliceElement
  \/ ElementReturn
  \/ SliceReturn
  \/ ParamInt
  \/ ParamLeb
  \/ ParamBitField
  \/ ParamStr
  \/ ParamIStr
  \/ ParamU8Slice
  \/ ParamU8Array
  \/ ParamChar
  \/ ParamPreformatted

Spec == Init /\ [][Next]_vars

(***************************************************************************)
(* The functions of the decoder, each applied on its own to an input drawn *)
(* from a bounded set.                                                     *)
(***************************************************************************)
\* The byte strings given to get_variant have up to MaxRead bytes.
MaxRead == 4

\* Decoder { bytes: b, format_list: None, bools_tbd: [], below_enum: false }, lines 435-441
DecoderOn(b) == [Entered("plain", b) EXCEPT !.pc = "args"]

RECURSIVE RunFormat(_)
\* the steps of the root decode_format call up to its return to decode, or to an Err
RunFormat(s) == IF s.pc \in {"done", "flush"} THEN s ELSE RunFormat(Step(s))

\* self.decode_format(format) on a decoder over the bytes b: the decoder when it returns
decode_format(fmt, b) ==
  RunFormat(CallFormat([DecoderOn(b) EXCEPT !.format = fmt], fmt, "root", FALSE))

\* a function and its input, not applied yet
Pending(fn, arg) == [fn |-> fn, arg |-> arg, out |-> <<>>, done |-> FALSE]

\* the function has returned out
Returned(c, out) == [c EXCEPT !.out = out, !.done = TRUE]

Applying(fn) == call.fn = fn /\ ~call.done

Applied(fn) == call.fn = fn /\ call.done

\* an enum's format string with k '|': "{0=u8}|{1=u8}|...|{k=u8}"
Variants(k) == [d \in 1 .. k + 1 |-> <<Parameter(d - 1, Ty("U8"), "None")>>]

\* the numbers of '|' tried: around the limit of u8, and around the limit of u16
VariantCounts == {1, 2, 255, 256}

WideVariantCounts == {65535, 65536}

GetVariantCalls ==
  {Pending("get_variant", [k |-> k, bytes |-> b]) :
     k \in VariantCounts, b \in SeqsUpTo({0, 1, 2, 255}, MaxRead - 1)}
  \cup {Pending("get_variant", [k |-> k, bytes |-> b]) :
          k \in WideVariantCounts, b \in SeqsUpTo({0, 1}, MaxRead)}

\* the bytes 1, 2, ..., n
Ramp(n) == [i \in 1 .. n |-> i]

\* the type the references to each index 0, 1, 2 have
IndexTypes == <<"U8", "U16", "U24">>

\* "a{i=..}{j=..}...": references to the indices in `indices`, in that order
Indexed(indices) ==
  <<(<<Literal("a")>> \o [j \in 1 .. Len(indices) |->
                           Parameter(indices[j], Ty(IndexTypes[indices[j] + 1]), "None")])>>

\* A format string has up to MaxParams references.
MaxParams == 3

IndexedCalls ==
  {Pending("decode_format", [kind |-> "indices", fmt |-> Indexed(f), bytes |-> Ramp(n)]) :
     f \in SeqsUpTo(0 .. 2, MaxParams), n \in 0 .. MaxLen}

\* the parameters the lists given to prepare_params are made of
ParamPool ==
  {Parameter(i, ty, "None") :
     i \in 0 .. 1,
     ty \in {Ty("U8"), Ty("Bool"), BitField(0, 4), BitField(2, 9), BitField(8, 10)}}

PrepareParamsCalls == {Pending("prepare_params", P) : P \in SeqsUpTo(ParamPool, MaxParams)}

\* the parameters the lists given to merge_bitfields are made of: bitfields of the
\* indices 0 and 2 with and without hints, and other parameters of every index
MergePool ==
  {Parameter(0, BitField(0, 3), "None"), Parameter(0, BitField(2, 9), "Hex"),
   Parameter(2, BitField(1, 4), "Binary"), Parameter(2, BitField(4, 5), "None"),
   Parameter(0, Ty("U8"), "None"), Parameter(1, Ty("U8"), "None"),
   Parameter(1, Ty("Bool"), "None"), Parameter(2, Ty("U8"), "Hex")}

\* the list of tests::merge_bitfields_overlap_non_consecutive_indices, lines 1966-1987
OverlapNonConsecutive ==
  <<Parameter(0, BitField(0, 3), "None"), Parameter(1, Ty("U8"), "None"),
    Parameter(2, BitField(1, 4), "None"), Parameter(2, BitField(4, 5), "None")>>

MergeBitfieldsCalls ==
  {Pending("merge_bitfields", P) : P \in SeqsUpTo(MergePool, MaxParams) \cup {OverlapNonConsecutive}}

\* "x: {i=s..e:b} ...": bitfield references <<i, s, e>>, in that order
BitFormat(refs) ==
  <<(<<Literal("x: ")>> \o [j \in 1 .. Len(refs) |->
                             Parameter(refs[j][1], BitField(refs[j][2], refs[j][3]), "Binary")])>>

\* fields of 1, 2, 3, 4, 5, 8, 9, 15 and 16 bytes after truncation, at the front and
\* further up, alone and with other references to the same index or to another
BitRefLists ==
  {<<(<<0, 0, 7>>)>>, <<(<<0, 9, 14>>)>>, <<(<<0, 3, 16>>)>>, <<(<<0, 8, 32>>)>>,
   <<(<<0, 0, 32>>)>>, <<(<<0, 0, 33>>)>>, <<(<<0, 16, 80>>)>>, <<(<<0, 0, 65>>)>>,
   <<(<<0, 8, 128>>)>>, <<(<<0, 119, 124>>)>>, <<(<<0, 0, 128>>)>>,
   <<(<<0, 0, 7>>), (<<0, 9, 14>>), (<<1, 8, 10>>)>>,
   <<(<<0, 28, 31>>), (<<0, 0, 2>>)>>,
   <<(<<1, 0, 5>>), (<<0, 7, 12>>)>>,
   <<(<<0, 36, 40>>), (<<0, 0, 4>>)>>}

\* the bytes on the wire: a prefix of these, or of these backwards
Wire == <<210, 99, 255, 229, 128, 1, 0, 254, 85, 170, 15, 240, 51, 204, 129, 126, 7, 200>>

Backwards(bs) == [i \in 1 .. Len(bs) |-> bs[Len(bs) + 1 - i]]

BitFieldCalls ==
  {Pending("decode_format", [kind |-> "bits", fmt |-> BitFormat(refs), bytes |-> Take(w, n)]) :
     refs \in BitRefLists, w \in {Wire, Backwards(Wire)}, n \in 0 .. Len(Wire)}

\* "{=T}"
OneParam(ty) == <<(<<Parameter(0, ty, "None")>>)>>

\* every fixed-width integer type over a prefix of three byte patterns
IntCalls ==
  {Pending("decode_format", [kind |-> "ints", fmt |-> OneParam(Ty(ty)), bytes |-> Take(w, n)]) :
     ty \in IntTypes, w \in {Wire, Backwards(Wire), Repeat(255, Len(Wire))}, n \in 0 .. Len(Wire)}

\* 2^63 - 1 and 2^63 as u64
I64Max == Repeat(255, 7) \o <<127>>

I64MinMagnitude == Repeat(0, 7) \o <<128>>

\* magnitudes of i64 values: small ones, around the byte limits, and the largest
Magnitudes ==
  {BigOfNat(n) : n \in {0, 1, 2, 3, 63, 64, 127, 128, 255, 256, 65535, 65536}}
  \cup {Canon(Take(Wire, n)) : n \in 1 .. 7} \cup {I64Max, Canon(Front(I64Max) \o <<126>>)}

\* i64 values as sign and magnitude: every n and -n of Magnitudes, and i64::MIN
I64Samples ==
  {[neg |-> FALSE, v |-> m] : m \in Magnitudes}
  \cup {[neg |-> TRUE, v |-> m] : m \in (Magnitudes \ {<<>>}) \cup {I64MinMagnitude}}

\* the 64 bits of an i64 in two's complement, bit 0 first
I64Bits(n) ==
  [k \in 1 .. 64 |->
     IF n.neg THEN BitOf(AddOne([j \in 1 .. 8 |-> 255 - Digit(n.v, j)]), k - 1)
     ELSE BitOf(n.v, k - 1)]

\* the zigzag encoding of an i64: (n << 1) ^ (n >> 63), as u64
ZigzagEncoding(n) ==
  U128OfBits([k \in 1 .. 128 |->
                IF k > 64 THEN 0
                ELSE ((IF k = 1 THEN 0 ELSE I64Bits(n)[k - 1]) + I64Bits(n)[64]) % 2])

\* the u64 given to zigzag_decode: the encodings of the samples, and other patterns
ZigzagCalls ==
  {Pending("zigzag_decode", ZigzagEncoding(n)) : n \in I64Samples}
  \cup {Pending("zigzag_decode", Canon(Take(w, n))) :
          w \in {Wire, Backwards(Wire), Repeat(255, 8)}, n \in 0 .. 8}

\* the byte strings given to read_leb128: up to ten bytes with the continuation bit,
\* then up to MaxRead - 2 more bytes
Leb128Calls ==
  {Pending("read_leb128", Repeat(x, k) \o tail) :
     x \in {128, 129, 255}, k \in 0 .. 10, tail \in SeqsUpTo({0, 1, 2, 127, 128}, MaxRead - 2)}

\* "{=T}{=u8}": a parameter of type ty, then a byte
ThenU8(ty) == <<(<<Parameter(0, ty, "None"), PU8(1)>>)>>

\* 'A', a lone continuation byte, the first byte of a two-byte character, and 0xFF
TextBytes == {65, 128, 194, 255}

\* "{=str}{=u8}" over a length (also in two bytes, and one beyond any input) and bytes
StrCalls ==
  {Pending("decode_format",
           [kind |-> "str", fmt |-> ThenU8(Ty("Str")), bytes |-> prefix \o body]) :
     prefix \in {<<0>>, <<1>>, <<2>>, <<3>>, <<130, 0>>, <<130>>, Leb2pow58},
     body \in SeqsUpTo(TextBytes, MaxRead - 1)}

\* "{:?}{=u8}" and "{}{=u8}" over bytes
PreformattedCalls ==
  {Pending("decode_format", [kind |-> "preformatted", fmt |-> ThenU8(Ty(ty)), bytes |-> b]) :
     ty \in {"Debug", "Display"}, b \in SeqsUpTo(TextBytes, MaxRead)}

\* numbers below, at and above one million, and up to the whole width of u128
MicrosecondNumbers ==
  {BigOfNat(n) : n \in {0, 1, 2, 9, 10, 999999, 1000000, 1000001, 1999999, 2000000, 123456789,
                        2147483647}}
  \cup {Canon(Take(Wire, n)) : n \in 1 .. 16} \cup {Repeat(255, 8), Repeat(255, 16)}

\* "{=u64}" and "{=i64}" with a hint
HintedParam(ty, hint) == <<(<<Parameter(0, Ty(ty), hint)>>)>>

\* the messages of one integer argument, unsigned or signed, with and without the
\* Microseconds hint
DisplayMessageCalls ==
  {Pending("display_message", [fmt |-> HintedParam("U64", h), args |-> <<ArgUxx(x)>>]) :
     h \in {"Microseconds", "None"}, x \in MicrosecondNumbers}
  \cup {Pending("display_message", [fmt |-> HintedParam("I64", h), args |-> <<ArgIxx(neg, x)>>]) :
          h \in {"Microseconds", "None"}, neg \in BOOLEAN, x \in MicrosecondNumbers \ {<<>>}}

InitFn ==
  /\ pc = "idle"
  /\ table = "plain"
  /\ input = <<>>
  /\ len = 0
  /\ bytes = <<>>
  /\ index = <<>>
  /\ level = ""
  /\ format = <<>>
  /\ timestamp_args = <<>>
  /\ args = <<>>
  /\ format_list = NoList
  /\ below_enum = FALSE
  /\ bools_tbd = <<>>
  /\ cells = <<>>
  /\ stack = <<>>
  /\ result = NoResult
  /\ log = <<>>
  /\ \/ call \in GetVariantCalls
     \/ call \in IndexedCalls
     \/ call \in BitFieldCalls
     \/ call \in IntCalls
     \/ call \in ZigzagCalls
     \/ call \in StrCalls
     \/ call \in PreformattedCalls
     \/ call \in Leb128Calls
     \/ call \in PrepareParamsCalls
     \/ call \in MergeBitfieldsCalls
     \/ call \in DisplayMessageCalls

\* self.get_variant(format) on a decoder over the given bytes
ApplyGetVariant ==
  /\ Applying("get_variant")
  /\ call' = Returned(call, get_variant(DecoderOn(call.arg.bytes), Variants(call.arg.k)))
  /\ UNCHANGED decoder_vars

\* self.decode_format(format) on a decoder over the given bytes
ApplyDecodeFormat ==
  /\ Applying("decode_format")
  /\ call' = Returned(call, decode_format(call.arg.fmt, call.arg.bytes))
  /\ UNCHANGED decoder_vars

\* self.prepare_params(&mut params)
ApplyPrepareParams ==
  /\ Applying("prepare_params")
  /\ call' = Returned(call, prepare_params(call.arg))
  /\ UNCHANGED decoder_vars

\* format_args(format, args, None) on what decode_format returned for that format
ApplyFormatArgs ==
  /\ Applied("decode_format")
  /\ call.arg.kind = "bits"
  /\ call.out.pc = "flush"
  /\ call' = [fn |-> "format_args",
              arg |-> [fmt |-> call.arg.fmt, args |-> call.out.args, bytes |-> call.arg.bytes],
              out |-> format_args(call.arg.fmt, call.out.args, "None"), done |-> TRUE]
  /\ UNCHANGED decoder_vars

\* zigzag_decode(unsigned)
ApplyZigzagDecode ==
  /\ Applying("zigzag_decode")
  /\ call' = Returned(call, zigzag_decode(call.arg))
  /\ UNCHANGED decoder_vars

\* read_leb128(&mut bytes)
ApplyReadLeb128 ==
  /\ Applying("read_leb128")
  /\ call' = Returned(call, read_leb128(call.arg))
  /\ UNCHANGED decoder_vars

\* DisplayMessage { format, args }.to_string(), lines 274-277
ApplyDisplayMessage ==
  /\ Applying("display_message")
  /\ call' = Returned(call, string_of(message_text([format |-> call.arg.fmt,
                                                    args |-> call.arg.args], <<>>)))
  /\ UNCHANGED decoder_vars

ApplyMergeBitfields ==
  /\ Applying("merge_bitfields")
  /\ call' = Returned(call, merge_bitfields(call.arg))
  /\ UNCHANGED decoder_vars

NextFn ==
  \/ ApplyGetVariant
  \/ ApplyMergeBitfields
  \/ ApplyDisplayMessage
  \/ ApplyReadLeb128
  \/ ApplyZigzagDecode
  \/ ApplyFormatArgs
  \/ ApplyPrepareParams
  \/ ApplyDecodeFormat

SpecFn == InitFn /\ [][NextFn]_vars

(***************************************************************************)
(* Properties.                                                             *)
(***************************************************************************)
Done == pc = "done"

Succeeded == pc = "done" /\ result.kind = "Ok"

LevelTags == {"Trace", "Debug", "Info", "Warn", "Error"}

RECURSIVE LogData(_)
\* the bytes read from the stream, in the order they were read
LogData(l) == IF l = <<>> THEN <<>> ELSE l[1].data \o LogData(Tail(l))

IsFlush(e) == e.site = "flush"

\* the packed-bool bytes read so far
Flushes == SelectSeq(log, IsFlush)

RECURSIVE SumPend(_, _)
\* the bools the first j flushes gave a value
SumPend(F, j) == IF j = 0 THEN 0 ELSE F[j].pend + SumPend(F, j - 1)

\* a Type::Format argument resolved its format
IsFormatReference(e) == e.site = "get_format" /\ e.param = "Format"

PhaseRank(p) ==
  CASE p = "index" -> 1
    [] p = "ts_args" -> 2
    [] p = "lookup" -> 3
    [] p = "args" -> 4
    [] p = "flush" -> 5
    [] OTHER -> 0

\* the index was read and names an entry whose tag is a level
IndexHasLevel ==
  /\ IsSmall(index)
  /\ Small(index) \in DOMAIN Tables[table].entries
  /\ Tables[table].entries[Small(index)].tag \in LevelTags

\* C1: on success the consumed count is the number of bytes read from the stream, for
\* the index, the timestamp arguments, the root arguments and the packed-bool bytes:
\* they are the first `consumed` bytes of the input, and bytes after them do not count.
C1_Consumed ==
  Succeeded =>
    /\ Len(LogData(log)) = result.consumed
    /\ Take(input, result.consumed) = LogData(log)
    /\ bytes = Drop(input, result.consumed)
    /\ \A k \in DOMAIN log :
         log[k].data # <<>> => log[k].phase \in {"index", "ts_args", "args", "flush"}

\* decode succeeded on an input with trailing bytes, having read a packed-bool byte,
\* an index and an argument
C1_Witness ==
  /\ Succeeded
  /\ result.consumed < len
  /\ \E k \in DOMAIN log : log[k].site = "flush"
  /\ \E k \in DOMAIN log : log[k].site = "arg" /\ log[k].phase = "args"

\* C2: a packed-bool byte read with n bools pending gives the i-th of them (from 0,
\* in the order they were met) bit n-1-i; the bools are dealt in blocks, so each gets
\* its value from exactly one byte, and the pending ones are those after the last block.
C2_PackedBits ==
  /\ \A j \in 1 .. Len(Flushes) : \A i \in 0 .. Flushes[j].pend - 1 :
       cells[SumPend(Flushes, j - 1) + i + 1]
         = (Bit(Flushes[j].data[1], Flushes[j].pend - 1 - i) = 1)
  /\ Done \/ bools_tbd = [k \in 1 .. Len(cells) - SumPend(Flushes, Len(Flushes))
                            |-> SumPend(Flushes, Len(Flushes)) + k]

\* a byte with bits set above the pending count was unpacked into several bools
C2_Witness ==
  /\ Succeeded
  /\ \E j \in 1 .. Len(Flushes) :
       /\ Flushes[j].pend \in 2 .. 7
       /\ Flushes[j].data = <<170>>
  /\ \E c, d \in DOMAIN cells : cells[c] /\ ~cells[d]

\* C3: a packed-bool byte is read only when eight bools are pending, at any depth, or
\* once, last, after the root arguments when some are pending; nothing else reads one.
C3_FlushOnlyWhenFull ==
  /\ \A k \in DOMAIN log :
       log[k].site = "flush" =>
         \/ log[k].phase \in {"ts_args", "args"} /\ log[k].pend = MAX_NUM_BOOL_FLAGS
         \/ /\ log[k].phase = "flush"
            /\ log[k].pend \in 1 .. MAX_NUM_BOOL_FLAGS - 1
            /\ k = Len(log)
  /\ ~Done => Len(bools_tbd) < MAX_NUM_BOOL_FLAGS
  /\ Succeeded => bools_tbd = <<>>

\* a full block was read inside a nested format, and a last byte after the root arguments
C3_Witness ==
  /\ Succeeded
  /\ \E k \in DOMAIN log : log[k].site = "flush" /\ log[k].phase = "args" /\ log[k].depth >= 2
  /\ \E k \in DOMAIN log : log[k].site = "flush" /\ log[k].phase = "flush"

\* C4: the reads come in this order: the index; the timestamp arguments, when the table
\* has a timestamp; the lookup of the index; the root arguments; at most one last
\* packed-bool byte.  The lookup comes when the timestamp arguments are all decoded.
C4_Order ==
  /\ \A j, k \in DOMAIN log : j < k => PhaseRank(log[j].phase) <= PhaseRank(log[k].phase)
  /\ \A k \in DOMAIN log : PhaseRank(log[k].phase) >= 1
  /\ \A k \in DOMAIN log : log[k].phase = "index" => k = 1 /\ log[k].site = "index"
  /\ \A j, k \in DOMAIN log :
       log[j].phase = log[k].phase /\ log[j].phase \in {"lookup", "flush"} => j = k
  /\ pc # "idle" /\ Tables[table].timestamp = <<>> =>
       \A k \in DOMAIN log : log[k].phase # "ts_args"
  /\ \A k \in DOMAIN log :
       log[k].site = "lookup" /\ Tables[table].timestamp # <<>> =>
         Len(timestamp_args)
           = Len(prepare_params(parameters_of(Tables[table].timestamp[1].string)))

\* a frame whose decoding read in all five phases
C4_Witness ==
  /\ Succeeded
  /\ \A p \in {"index", "ts_args", "lookup", "args", "flush"} :
       \E k \in DOMAIN log : log[k].phase = p

\* C5: once the index is read and the timestamp decoded, an index that is not in the
\* table or whose tag is no level makes decode return Malformed, reading nothing more;
\* a frame carries the level of its entry's tag and the index that was read.
C5_Level ==
  /\ (Done /\ \E k \in DOMAIN log : log[k].site = "lookup") /\ ~IndexHasLevel =>
       result.kind = "Malformed" /\ log[Len(log)].site = "lookup"
  /\ Succeeded =>
       /\ IndexHasLevel
       /\ result.frame[1].level = Tables[table].entries[Small(index)].tag
       /\ result.frame[1].index = read_leb128(input).val

\* the timestamp was decoded and the index names an entry without a level
C5_Witness ==
  /\ Done
  /\ result.kind = "Malformed"
  /\ timestamp_args # <<>>
  /\ IsSmall(index)
  /\ Small(index) \in DOMAIN Tables[table].entries
  /\ Tables[table].entries[Small(index)].tag = "Derived"

\* C6 (as amended): UnexpectedEof says the input ran out: an extension of the input
\* that decodes to a frame consumes more bytes than the input had.  (An extension
\* that decodes to a frame need not exist.)  Stated over the inputs that decode to a
\* frame: a proper prefix that gives UnexpectedEof is shorter than what was consumed.
C6_EofNeedsMoreBytes ==
  Succeeded =>
    \A k \in 0 .. len - 1 :
      decode(table, Take(input, k)).kind = "UnexpectedEof" => k < result.consumed

\* an input that gives UnexpectedEof was extended by one byte and decoded to a frame
C6_Witness ==
  /\ Succeeded
  /\ len >= 2
  /\ decode(table, Take(input, len - 1)).kind = "UnexpectedEof"

\* C6 (as stated): when decode returns UnexpectedEof, some non-empty extension of the
\* input decodes to a frame.  In the table `stamped` a frame has at most four bytes,
\* its entries are 0..3 and no argument's value decides what is read next, so an
\* extension that decodes exists only if one of these does.
C6_EofCompletable ==
  Done /\ result.kind = "UnexpectedEof" /\ table = "stamped" =>
    \E ext \in SeqsUpTo({0, 1, 255}, MaxLen) :
      ext # <<>> /\ decode(table, input \o ext).kind = "Ok"

\* C7: when decode returns Malformed on some bytes, it returns no frame on any
\* extension of them: no decoded input has a prefix that is Malformed.
C7_MalformedFinal ==
  Succeeded => \A k \in 0 .. len : decode(table, Take(input, k)).kind # "Malformed"

\* a Malformed input was extended and decoded again
C7_Witness ==
  /\ Done
  /\ result.kind = "Malformed"
  /\ \E k \in 0 .. len - 1 : decode(table, Take(input, k)).kind = "Malformed"

\* C8 (as stated): decode returns a frame, UnexpectedEof or Malformed; it never aborts.
C8_NeverAborts == result.kind \in {"None", "Ok", "UnexpectedEof", "Malformed"}

C10_BelowEnumFromStream ==
  \A k \in DOMAIN log :
    IsFormatReference(log[k]) /\ log[k].be =>
      log[k].src = "stream" /\ log[k].data # <<>>

\* the width the discriminant of an enum with k '|' is said to have
ClaimedWidth(k) == IF k <= 255 THEN 1 ELSE IF k <= 65535 THEN 2 ELSE 4

RECURSIVE LeNat(_)
\* the little-endian value of a few bytes
LeNat(bs) == IF bs = <<>> THEN 0 ELSE bs[1] + 256 * LeNat(Tail(bs))

\* the little-endian value of bs is at most k (k < 2^24)
LeAtMost(bs, k) ==
  /\ \A i \in 4 .. Len(bs) : bs[i] = 0
  /\ LeNat(Take(bs, IF Len(bs) < 3 THEN Len(bs) ELSE 3)) <= k

RefIndices(fmt) ==
  {fmt[1][j].index : j \in {i \in 1 .. Len(fmt[1]) : fmt[1][i].frag = "Parameter"}}

RECURSIVE Ascending(_)
\* the numbers of a set in increasing order
Ascending(S) ==
  IF S = {} THEN <<>>
  ELSE <<CHOOSE m \in S : \A x \in S : m <= x>>
       \o Ascending(S \ {CHOOSE m \in S : \A x \in S : m <= x})

\* the reads of arguments a call has made, in order
ArgReads(s) == SelectSeq(s.log, LAMBDA e : e.site = "arg")

RECURSIVE WidthsBefore(_, _)
\* the bytes the arguments of the first j indices of idx take
WidthsBefore(idx, j) ==
  IF j = 0 THEN 0 ELSE WidthsBefore(idx, j - 1) + width_of(IndexTypes[idx[j] + 1])

\* the j-th read is the argument of the j-th smallest index, right after the ones before
ReadsInIndexOrder(reads, idx, b) ==
  /\ Len(reads) <= Len(idx)
  /\ \A j \in 1 .. Len(reads) :
       /\ reads[j].param = IndexTypes[idx[j] + 1]
       /\ reads[j].data = SubSeq(b, WidthsBefore(idx, j - 1) + 1, WidthsBefore(idx, j))

\* C12: decode_format reads one argument per distinct index of the format string, in
\* increasing order of the index, whatever the order and the number of the references;
\* the arguments it returns are one per distinct index, in that order.
C12_OnePerIndex ==
  (Applied("decode_format") /\ call.arg.kind = "indices") =>
    /\ ReadsInIndexOrder(ArgReads(call.out), Ascending(RefIndices(call.arg.fmt)),
                         call.arg.bytes)
    /\ call.out.pc = "flush" =>
         /\ Len(call.out.args) = Cardinality(RefIndices(call.arg.fmt))
         /\ Len(ArgReads(call.out)) = Cardinality(RefIndices(call.arg.fmt))
         /\ \A j \in 1 .. Len(call.out.args) :
              call.out.args[j] = ArgUxx(BigOfBytes(ArgReads(call.out)[j].data))
    /\ call.out.pc = "done" => call.out.result.kind = "UnexpectedEof"

\* "a{2=u24}{0=u8}{2=u24}" on 1, 2, 3, 4, 5: index 0 is read first, index 2 once
C12_Witness ==
  /\ Applied("decode_format")
  /\ call.arg.fmt = Indexed(<<2, 0, 2>>)
  /\ call.arg.bytes = Ramp(5)
  /\ call.out.pc = "flush"
  /\ call.out.args = <<ArgUxx(<<1>>), ArgUxx(<<2, 3, 4>>)>>
  /\ call.out.bytes = <<5>>

\* the places of the list P that refer to the index ix
Occurrences(P, ix) == {i \in 1 .. Len(P) : P[i].index = ix}

\* the type said to be left for an index of P
ClaimedType(P, ix, ty) ==
  IF \A i \in Occurrences(P, ix) : P[i].ty.t = "BitField"
  THEN /\ ty.t = "BitField"
       /\ \E i \in Occurrences(P, ix) : ty.a = P[i].ty.a
       /\ \A i \in Occurrences(P, ix) : ty.a <= P[i].ty.a
       /\ \E i \in Occurrences(P, ix) : ty.b = P[i].ty.b
       /\ \A i \in Occurrences(P, ix) : ty.b >= P[i].ty.b
  ELSE \E i \in Occurrences(P, ix) : ty = P[i].ty

\* C13: prepare_params leaves exactly one parameter for each index of the list it is
\* given, in increasing order of the index; the type of an index whose occurrences are
\* all bitfields is the bitfield from their smallest start to their largest end, and the
\* type of any other index is one of the types it had in the list.
C13_OnePerIndex ==
  Applied("prepare_params") =>
    /\ {call.out[j].index : j \in 1 .. Len(call.out)}
         = {call.arg[i].index : i \in 1 .. Len(call.arg)}
    /\ \A j \in 1 .. Len(call.out) - 1 : call.out[j].index < call.out[j + 1].index
    /\ \A j \in 1 .. Len(call.out) : ClaimedType(call.arg, call.out[j].index, call.out[j].ty)

\* {1=2..9} {0=u8} {1=8..10}: index 1 is the bitfield 2..10, index 0 stays u8
C13_Witness ==
  /\ Applied("prepare_params")
  /\ call.arg = <<Parameter(1, BitField(2, 9), "None"), Parameter(0, Ty("U8"), "None"),
                  Parameter(1, BitField(8, 10), "None")>>
  /\ call.out = <<Parameter(0, Ty("U8"), "None"), Parameter(1, BitField(2, 10), "None")>>

\* {0=0..4} {0=bool}: an index with a bitfield and another type keeps the other type
C13_MixedWitness ==
  /\ Applied("prepare_params")
  /\ call.arg = <<Parameter(0, BitField(0, 4), "None"), Parameter(0, Ty("Bool"), "None")>>
  /\ call.out = <<Parameter(0, Ty("Bool"), "None")>>

\* the parameters of fmt that refer to the index ix
RefsTo(fmt, ix) == SelectSeq(fmt[1], LAMBDA f : f.frag = "Parameter" /\ f.index = ix)

\* the smallest start and the largest end of the bitfield references to the index ix
SpanStart(fmt, ix) == SeqMin([k \in 1 .. Len(RefsTo(fmt, ix)) |-> RefsTo(fmt, ix)[k].ty.a])

SpanEnd(fmt, ix) == SeqMax([k \in 1 .. Len(RefsTo(fmt, ix)) |-> RefsTo(fmt, ix)[k].ty.b])

\* ceil(e / 8) - floor(s / 8)
TruncatedSize(s, e) == (e + 7) \div 8 - s \div 8

\* the bytes read for a field of that many bytes: the width of u8, u16, u24, u32, u64, u128
ClaimedReadWidth(size) == IF size <= 4 THEN size ELSE IF size <= 8 THEN 8 ELSE 16

\* the 128-bit value with the bytes `data` from byte `lowest` up, the rest zero
Placed(data, lowest) ==
  Canon([p \in 1 .. 16 |-> IF p > lowest /\ p - lowest <= Len(data) THEN data[p - lowest]
                           ELSE 0])

\* the j-th index of the format, in increasing order
NthIndex(fmt, j) == Ascending(RefIndices(fmt))[j]

\* C14 (amended): decoding the coalesced BitField(s..e) of an index, 0 <= s < e <= 128,
\* with n = ceil(e/8) - floor(s/8), consumes n bytes when n <= 4, 8 bytes when n is 5..8
\* and 16 bytes when n is 9..16, read as one little-endian unsigned integer; the argument
\* is that integer shifted left by 8 * floor(s/8) bits within 128 bits.
C14_BitFieldRead ==
  (Applied("decode_format") /\ call.arg.kind = "bits") =>
    /\ \A j \in 1 .. Len(ArgReads(call.out)) :
         /\ ArgReads(call.out)[j].param = "BitField"
         /\ Len(ArgReads(call.out)[j].data)
              = ClaimedReadWidth(TruncatedSize(SpanStart(call.arg.fmt, NthIndex(call.arg.fmt, j)),
                                               SpanEnd(call.arg.fmt, NthIndex(call.arg.fmt, j))))
    /\ ArgReads(call.out) # <<>> =>
         ArgReads(call.out)[1].data = Take(call.arg.bytes, Len(ArgReads(call.out)[1].data))
    /\ call.out.pc = "flush" =>
         /\ Len(call.out.args) = Cardinality(RefIndices(call.arg.fmt))
         /\ Len(ArgReads(call.out)) = Len(call.out.args)
         /\ \A j \in 1 .. Len(call.out.args) :
              call.out.args[j]
                = ArgUxx(Placed(ArgReads(call.out)[j].data,
                                SpanStart(call.arg.fmt, NthIndex(call.arg.fmt, j)) \div 8))
    /\ call.out.pc = "done" => call.out.result.kind = "UnexpectedEof"

\* {0=36..40:b} {0=0..4:b} is the field 0..40 of five bytes: eight bytes are read
C14_Witness ==
  /\ Applied("decode_format")
  /\ call.arg.fmt = BitFormat(<<(<<0, 36, 40>>), (<<0, 0, 4>>)>>)
  /\ call.arg.bytes = Take(Wire, 9)
  /\ call.out.pc = "flush"
  /\ call.out.args = <<ArgUxx(Take(Wire, 8))>>
  /\ call.out.bytes = <<85>>

\* {0=9..14:b}: one byte is read and stands at the bits 8..15
C14_ShiftWitness ==
  /\ Applied("decode_format")
  /\ call.arg.fmt = BitFormat(<<(<<0, 9, 14>>)>>)
  /\ call.arg.bytes = <<210, 99>>
  /\ call.out.args = <<ArgUxx(<<0, 210>>)>>
  /\ call.out.bytes = <<99>>

\* C14 as stated: decoding the coalesced BitField(s..e) consumes exactly
\* ceil(e/8) - floor(s/8) bytes.
C14_ExactBytes ==
  (Applied("decode_format") /\ call.arg.kind = "bits") =>
    \A j \in 1 .. Len(ArgReads(call.out)) :
      Len(ArgReads(call.out)[j].data)
        = TruncatedSize(SpanStart(call.arg.fmt, NthIndex(call.arg.fmt, j)),
                        SpanEnd(call.arg.fmt, NthIndex(call.arg.fmt, j)))

\* the item is the number floor(v / 2^s) mod 2^(e - s): its bit k is bit s + k of v
\* below e - s, and zero from there on
IsBitsOf(item, v, s, e) ==
  /\ item.w = "u128"
  /\ \A k \in 0 .. 127 : BitOf(item.v, k) = IF k < e - s THEN BitOf(v, s + k) ELSE 0

\* C15: for every bitfield reference {i=s..e} of a format string the formatter writes the
\* number floor(v / 2^s) mod 2^(e - s), v being the argument of the index i, also when
\* several references to i with different ranges were read as one argument.
C15_BitFieldRendered ==
  Applied("format_args") =>
    \A p \in 1 .. Len(call.arg.fmt[1]) :
      call.arg.fmt[1][p].frag = "Parameter" =>
        IsBitsOf(call.out[p], call.arg.args[call.arg.fmt[1][p].index + 1].v,
                 call.arg.fmt[1][p].ty.a, call.arg.fmt[1][p].ty.b)

\* "x: {0=0..7:b} {0=9..14:b} {1=8..10:b}" on 0b1101_0010, 0b0110_0011, 0b1111_1111 is
\* written as 0b1010010, 0b10001, 0b11
C15_Witness ==
  /\ Applied("format_args")
  /\ call.arg.fmt = BitFormat(<<(<<0, 0, 7>>), (<<0, 9, 14>>), (<<1, 8, 10>>)>>)
  /\ call.arg.bytes = <<210, 99, 255>>
  /\ call.arg.args = <<ArgUxx(<<210, 99>>), ArgUxx(<<0, 255>>)>>
  /\ call.out = <<Text("x: "), format_u128(<<82>>, "Binary"), format_u128(<<17>>, "Binary"),
                  format_u128(<<3>>, "Binary")>>

\* the bytes each fixed-width integer type is said to take
ClaimedIntWidth(t) ==
  CASE t \in {"U8", "I8"} -> 1
    [] t \in {"U16", "I16"} -> 2
    [] t = "U24" -> 3
    [] t \in {"U32", "I32"} -> 4
    [] t \in {"U64", "I64"} -> 8
    [] t \in {"U128", "I128"} -> 16

RECURSIVE AddBytes(_, _, _)
\* a + b + carry on little-endian bytes of the same length, with the carry out as last byte
AddBytes(a, b, carry) ==
  IF a = <<>> THEN <<carry>>
  ELSE <<(a[1] + b[1] + carry) % 256>> \o AddBytes(Tail(a), Tail(b), (a[1] + b[1] + carry) \div 256)

\* arg is the integer of type t whose little-endian bytes are data: the unsigned value
\* for an unsigned type; for a signed type the two's complement value, that is the
\* unsigned value u when the top bit is clear and u - 2^(8w) when it is set
IsIntOf(arg, t, data) ==
  IF t \in {"I8", "I16", "I32", "I64", "I128"}
  THEN /\ arg.tag = "Ixx"
       /\ arg.neg = (Last(data) >= 128)
       /\ arg.v = Canon(arg.v)
       /\ IF arg.neg
          THEN /\ Len(arg.v) <= Len(data)
               /\ AddBytes(data, arg.v \o Repeat(0, Len(data) - Len(arg.v)), 0)
                    = Repeat(0, Len(data)) \o <<1>>
          ELSE arg.v = Canon(data)
  ELSE /\ arg.tag = "Uxx"
       /\ arg.v = Canon(data)
       /\ Len(data) <= 3 => Small(arg.v) = LeNat(data)

\* C16: a fixed-width integer parameter takes exactly the bytes of its width (1 for U8
\* and I8, 2 for U16 and I16, 3 for U24, 4 for U32 and I32, 8 for U64 and I64, 16 for U128
\* and I128) and its value is their little-endian value, for a signed type in two's
\* complement; with fewer bytes left decoding fails with UnexpectedEof.
C16_FixedWidth ==
  (Applied("decode_format") /\ call.arg.kind = "ints") =>
    IF Len(call.arg.bytes) >= ClaimedIntWidth(call.arg.fmt[1][1].ty.t)
    THEN /\ call.out.pc = "flush"
         /\ call.out.bytes = Drop(call.arg.bytes, ClaimedIntWidth(call.arg.fmt[1][1].ty.t))
         /\ Len(call.out.args) = 1
         /\ IsIntOf(call.out.args[1], call.arg.fmt[1][1].ty.t,
                    Take(call.arg.bytes, ClaimedIntWidth(call.arg.fmt[1][1].ty.t)))
    ELSE call.out.pc = "done" /\ call.out.result.kind = "UnexpectedEof"

\* "{=i32}" on 0xFF, 0xFF, 0xFF, 0xFF, 0xFF is -1, and one byte is left
C16_Witness ==
  /\ Applied("decode_format")
  /\ call.arg.fmt = OneParam(Ty("I32"))
  /\ call.arg.bytes = Repeat(255, 5)
  /\ call.out.args = <<ArgIxx(TRUE, <<1>>)>>
  /\ call.out.bytes = <<255>>

\* "{=u24}" on 210, 99, 255, 229 is 210 + 256 * 99 + 65536 * 255
C16_U24Witness ==
  /\ Applied("decode_format")
  /\ call.arg.fmt = OneParam(Ty("U24"))
  /\ call.arg.bytes = <<210, 99, 255, 229>>
  /\ Small(call.out.args[1].v) = 210 + 256 * 99 + 65536 * 255
  /\ call.out.bytes = <<229>>

\* a as nine little-endian bytes
Nine(a) == [j \in 1 .. 9 |-> Digit(a, j)]

\* C17: zigzag_decode gives u / 2 for an even u and -(u + 1) / 2 for an odd u, over the
\* whole range of u64; decoding the zigzag encoding (n << 1) ^ (n >> 63) of an i64 n
\* gives n back.
C17_Zigzag ==
  Applied("zigzag_decode") =>
    /\ call.out.tag = "Ixx"
    /\ call.out.v = Canon(call.out.v)
    /\ call.out.neg = (Digit(call.arg, 1) % 2 = 1)
    /\ ~call.out.neg => Front(AddBytes(Nine(call.out.v), Nine(call.out.v), 0)) = Nine(call.arg)
    /\ call.out.neg =>
         Front(AddBytes(Nine(call.out.v), Nine(call.out.v), 0)) = AddOne(Nine(call.arg))
    /\ \A n \in I64Samples :
         call.arg = ZigzagEncoding(n) => (call.out.neg = n.neg /\ call.out.v = n.v)

\* i64::MIN is encoded as 2^64 - 1 and comes back
C17_Witness ==
  /\ Applied("zigzag_decode")
  /\ call.arg = Repeat(255, 8)
  /\ call.arg = ZigzagEncoding([neg |-> TRUE, v |-> I64MinMagnitude])
  /\ call.out = ArgIxx(TRUE, I64MinMagnitude)

\* -3 is encoded as 5 and comes back
C17_SmallWitness ==
  /\ Applied("zigzag_decode")
  /\ call.arg = <<5>>
  /\ call.arg = ZigzagEncoding([neg |-> TRUE, v |-> <<3>>])
  /\ call.out = ArgIxx(TRUE, <<3>>)

\* the place of the first byte without the continuation bit, or 0
EncodingEnd(bs) ==
  IF \A i \in 1 .. Len(bs) : bs[i] >= 128 THEN 0
  ELSE CHOOSE e \in 1 .. Len(bs) : bs[e] < 128 /\ \A i \in 1 .. e - 1 : bs[i] >= 128

RECURSIVE Times128Plus(_, _)
\* 128 * v + d on little-endian bytes, d below 256; the carry out is the last byte
Times128Plus(v, d) ==
  IF v = <<>> THEN <<d>>
  ELSE <<(128 * v[1] + d) % 256>> \o Times128Plus(Tail(v), (128 * v[1] + d) \div 256)

RECURSIVE Leb128Value(_)
\* the number the bytes encode: the sum of (bs[i] mod 128) * 128^(i - 1)
Leb128Value(bs) ==
  IF bs = <<>> THEN <<>> ELSE Canon(Times128Plus(Leb128Value(Tail(bs)), bs[1] % 128))

\* the encoding of at most ten bytes fits 64 bits: a tenth byte is 0 or 1
Fits64(bs, e) == e <= 9 \/ (e = 10 /\ bs[10] \in {0, 1})

C20_OverflowWitness ==
  /\ Applied("read_leb128")
  /\ call.arg = Repeat(255, 9) \o <<2>>
  /\ call.out.res = "Malformed"

\* 0x81, 0x80: the input ends after a byte with the continuation bit
C20_EofWitness ==
  /\ Applied("read_leb128")
  /\ call.arg = <<129, 128>>
  /\ call.out.res = "UnexpectedEof"

RECURSIVE ValidText(_)
\* UTF-8 over TextBytes: 'A' and the two bytes 0xC2 0x80 of U+0080, in any number
ValidText(bs) ==
  IF bs = <<>> THEN TRUE
  ELSE IF bs[1] = 65 THEN ValidText(Tail(bs))
  ELSE Len(bs) >= 2 /\ bs[1] = 194 /\ bs[2] = 128 /\ ValidText(Drop(bs, 2))

\* the u8 after a parameter that ended with `rest` unread: the second argument, or the
\* end of the input
ThenReadsU8(out, first, rest) ==
  IF rest = <<>> THEN out.pc = "done" /\ out.result.kind = "UnexpectedEof"
  ELSE /\ out.pc = "flush"
       /\ out.args = <<first, ArgUxx(Canon(<<rest[1]>>))>>
       /\ out.bytes = Tail(rest)

\* what is said of a Str whose length L was read, with `rest` after the length
StrAfterLength(out, L, rest) ==
  IF ~IsSmall(L) \/ Small(L) > Len(rest)
  THEN out.pc = "done" /\ out.result.kind = "UnexpectedEof"
  ELSE IF ~ValidText(Take(rest, Small(L)))
  THEN out.pc = "done" /\ out.result.kind = "Malformed"
  ELSE ThenReadsU8(out, ArgStr(Take(rest, Small(L))), Drop(rest, Small(L)))

\* C18: a Str parameter takes a LEB128 length L and then exactly L bytes; with fewer than
\* L bytes left the result is UnexpectedEof, whatever the bytes are; L bytes that are
\* not UTF-8 give Malformed; otherwise the argument is that string and decoding goes on
\* right after it.
C18_Str ==
  (Applied("decode_format") /\ call.arg.kind = "str") =>
    IF EncodingEnd(call.arg.bytes) = 0
    THEN call.out.pc = "done" /\ call.out.result.kind = "UnexpectedEof"
    ELSE StrAfterLength(call.out,
                        Leb128Value(Take(call.arg.bytes, EncodingEnd(call.arg.bytes))),
                        Drop(call.arg.bytes, EncodingEnd(call.arg.bytes)))

\* length 2, U+0080, then 'A': the string is the two bytes and the u8 is 'A'
C18_Witness ==
  /\ Applied("decode_format")
  /\ call.arg.kind = "str"
  /\ call.arg.bytes = <<2, 194, 128, 65>>
  /\ call.out.pc = "flush"
  /\ call.out.args = <<ArgStr(<<194, 128>>), ArgUxx(<<65>>)>>
  /\ call.out.bytes = <<>>

\* length 3 and two bytes that are no UTF-8: UnexpectedEof, not Malformed
C18_EofWitness ==
  /\ Applied("decode_format")
  /\ call.arg.kind = "str"
  /\ call.arg.bytes = <<3, 255, 255>>
  /\ call.out.result.kind = "UnexpectedEof"

\* C19: a Debug or Display parameter takes the bytes up to the first 0xFF and the 0xFF
\* itself; without a 0xFF the result is UnexpectedEof; bytes before it that are not
\* UTF-8 give Malformed; otherwise they are the argument and decoding goes on after the
\* 0xFF.
C19_Preformatted ==
  (Applied("decode_format") /\ call.arg.kind = "preformatted") =>
    IF \A k \in 1 .. Len(call.arg.bytes) : call.arg.bytes[k] # 255
    THEN call.out.pc = "done" /\ call.out.result.kind = "UnexpectedEof"
    ELSE \E end \in 1 .. Len(call.arg.bytes) :
           /\ call.arg.bytes[end] = 255
           /\ \A k \in 1 .. end - 1 : call.arg.bytes[k] # 255
           /\ IF ~ValidText(Take(call.arg.bytes, end - 1))
              THEN call.out.pc = "done" /\ call.out.result.kind = "Malformed"
              ELSE ThenReadsU8(call.out, ArgPreformatted(Take(call.arg.bytes, end - 1)),
                               Drop(call.arg.bytes, end))

\* "{:?}{=u8}" on U+0080, 0xFF, 'A': the text is the two bytes, the u8 is 'A'
C19_Witness ==
  /\ Applied("decode_format")
  /\ call.arg.fmt = ThenU8(Ty("Debug"))
  /\ call.arg.bytes = <<194, 128, 255, 65>>
  /\ call.out.pc = "flush"
  /\ call.out.args = <<ArgPreformatted(<<194, 128>>), ArgUxx(<<65>>)>>
  /\ call.out.bytes = <<>>

\* the reads and format resolutions of the arguments and the index so far
ArgEvents == SelectSeq(log, LAMBDA e : e.site # "lookup")

\* their code sites, in order
LogSites == [k \in DOMAIN ArgEvents |-> ArgEvents[k].site]

\* the arguments of the frame decode returned
FrameArgs == result.frame[1].args

\* what decode returns for the same table when its input is b
Redecoded(b) == decode(table, b)

\* the input names the format slice of table "slices" (entry 3) with a count of n
AsSliceOf(n, rest) == <<3, n>> \o rest

\* C21: a FormatSlice whose count is 0 consumes the count and nothing else (no format
\* index, no discriminant, no element byte) and its argument has no elements; a
\* FormatArray(n) is decoded like a FormatSlice of count n with no length prefix read
\* (same outcome, same arguments, one byte less consumed), and a FormatArray(0)
\* consumes no byte at all.
C21_EmptySliceAndArray ==
  Done =>
    /\ (table = "elems" /\ len >= 2 /\ input[1] = 1 /\ input[2] = 0) =>
         /\ result.kind = "Ok"
         /\ result.consumed = 2
         /\ FrameArgs = <<ArgFormatSlice(<<>>)>>
         /\ LogSites = <<"index", "count">>
    /\ (table = "elems" /\ len >= 2 /\ input[1] = 3) =>
         /\ result.kind = "Ok"
         /\ result.consumed = 2
         /\ FrameArgs = <<ArgFormatSlice(<<>>), ArgUxx(BigOfNat(input[2]))>>
         /\ LogSites = <<"index", "arg">>
    /\ (table = "slices" /\ len >= 1 /\ input[1] = 4) =>
         /\ Redecoded(AsSliceOf(2, Tail(input))).kind = result.kind
         /\ result.kind = "Ok" =>
              /\ Redecoded(AsSliceOf(2, Tail(input))).consumed = result.consumed + 1
              /\ Redecoded(AsSliceOf(2, Tail(input))).frame[1].args = FrameArgs
              /\ "count" \notin {log[k].site : k \in DOMAIN log}

\* a slice with count 0 was decoded with bytes left over
C21_Witness ==
  /\ Succeeded
  /\ table = "elems"
  /\ len > 2
  /\ input[1] = 1
  /\ input[2] = 0
  /\ FrameArgs = <<ArgFormatSlice(<<>>)>>

\* an array of no elements was decoded, and the byte after it went to the next argument
C21_EmptyArrayWitness ==
  /\ Succeeded
  /\ table = "elems"
  /\ input[1] = 3
  /\ FrameArgs[1] = ArgFormatSlice(<<>>)
  /\ FrameArgs[2].tag = "Uxx"

\* an array of two elements was decoded
C21_ArrayWitness ==
  /\ Succeeded
  /\ table = "slices"
  /\ input[1] = 4
  /\ Len(FrameArgs[1].elements) = 2

\* the frame decode returned was displayed
Displayed == pc = "done" /\ call.fn = "display"

\* C22 (as stated): the formatter never fails: displaying the frame of a successful
\* decode completes and yields a string, whatever the indices, types and hints of its
\* format strings.
C22_FormatterNeverFails == Displayed => call.out.w = "string"

\* a call of decode begins
DecodeBegins == pc = "idle" /\ pc' # "idle"

\* C23: decode is a function of its bytes and its table only: whatever calls ran
\* before and whatever they left behind, a call starts with an empty pending-bool
\* list, no format list and below_enum false; its outcome, its consumed count and its
\* frame are those of the function on (bytes, table), and so is the text the frame is
\* displayed as.
C23_DecodeIsAFunction ==
  /\ [][DecodeBegins =>
          /\ bools_tbd' = <<>>
          /\ format_list' = NoList
          /\ below_enum' = FALSE
          /\ cells' = <<>>]_vars
  /\ [](Done => result = decode(table, input))
  /\ [](Displayed =>
          call.out = display_text(decode(table, input).frame[1], cells))

\* a call that failed inside an enum variant of a slice element has returned, and the
\* next call is about to begin
C23_Witness ==
  /\ pc = "idle"
  /\ below_enum
  /\ format_list.mode = "Use"

\* the frame was displayed and the formatter gave a string
Shown == Displayed /\ call.out.w = "string"

\* the label a level is said to have
ClaimedLabel ==
  [Trace |-> "TRACE", Debug |-> "DEBUG", Info |-> "INFO", Warn |-> "WARN", Error |-> "ERROR"]

\* the rendered message of the frame that was displayed
RenderedMessage == written(format_args(call.arg.format, call.arg.args, "None"), cells)

\* the rendered timestamp of the frame that was displayed
RenderedTimestamp ==
  written(format_args(Tables[table].timestamp[1].string, call.arg.timestamp_args, "None"), cells)

\* the level label, a space and the message
LabelAndMessage ==
  <<Text(ClaimedLabel[call.arg.level]), Text(" ")>> \o RenderedMessage

\* C24: the uncolored text of a frame is the rendered timestamp and one space if and
\* only if the table has a timestamp entry, then the level label (TRACE, DEBUG, INFO,
\* WARN or ERROR), one space and the rendered message; without a timestamp entry the
\* text starts with the label.
C24_DisplayFrame ==
  Shown =>
    /\ call.arg.level \in DOMAIN ClaimedLabel
    /\ Tables[table].timestamp # <<>> =>
         call.out.text = RenderedTimestamp \o <<Text(" ")>> \o LabelAndMessage
    /\ Tables[table].timestamp = <<>> =>
         /\ call.out.text = LabelAndMessage
         /\ call.out.text[1] = Text(ClaimedLabel[call.arg.level])

\* a frame with a timestamp and a message with an argument was displayed
C24_Witness ==
  /\ Shown
  /\ table = "stamped"
  /\ call.arg.level = "Debug"
  /\ call.arg.timestamp_args # <<>>
  /\ call.arg.args # <<>>

\* a frame of a table without timestamp was displayed
C24_NoTimestampWitness ==
  /\ Shown
  /\ table = "plain"
  /\ call.arg.level = "Error"
  /\ call.arg.timestamp_format = <<>>

DecimalDigits == {"0", "1", "2", "3", "4", "5", "6", "7", "8", "9"}

\* a piece of text is a decimal digit
IsDecimalDigit(item) == item.w = "text" /\ item.text \in DecimalDigits

DigitValue(item) == CHOOSE d \in 0 .. 9 : DigitChars[d + 1] = item.text

\* a number in decimal without leading zeros
IsNumeral(text) ==
  /\ text # <<>>
  /\ \A k \in DOMAIN text : IsDecimalDigit(text[k])
  /\ Len(text) > 1 => text[1] # Text("0")

RECURSIVE TimesTenPlus(_, _)
\* 10 * v + d on little-endian bytes, d below 256; the carry out is the last byte
TimesTenPlus(v, d) ==
  IF v = <<>> THEN <<d>>
  ELSE <<(10 * v[1] + d) % 256>> \o TimesTenPlus(Tail(v), (10 * v[1] + d) \div 256)

RECURSIVE DecimalFrom(_, _, _)
\* the number denoted by the digits read so far (acc) followed by the digits k .. of text;
\* a number of more than 17 bytes is beyond u128 and is read no further
DecimalFrom(text, k, acc) ==
  IF k > Len(text) \/ Len(acc) > 17 THEN acc
  ELSE DecimalFrom(text, k + 1, Canon(TimesTenPlus(acc, DigitValue(text[k]))))

\* the number a sequence of decimal digits denotes
DecimalValue(text) == DecimalFrom(text, 1, <<>>)

\* a message of one integer with the Microseconds hint was displayed
MicrosecondsShown(tag) ==
  /\ Applied("display_message")
  /\ call.arg.fmt[1][1].hint = "Microseconds"
  /\ call.arg.args[1].tag = tag

\* the text is s, a dot and six digits m with s * 10^6 + m = x: s is floor(x / 10^6)
\* and m is x mod 10^6 padded with zeros to six digits
IsMicrosecondsOf(text, x) ==
  /\ Len(text) >= 8
  /\ text[Len(text) - 6] = Text(".")
  /\ IsNumeral(SubSeq(text, 1, Len(text) - 7))
  /\ \A k \in Len(text) - 5 .. Len(text) : IsDecimalDigit(text[k])
  /\ DecimalValue(SubSeq(text, 1, Len(text) - 7) \o SubSeq(text, Len(text) - 5, Len(text))) = x

\* the text is the number in plain decimal, with a minus sign when it is negative
IsDecimalOf(text, neg, magnitude) ==
  /\ text # <<>>
  /\ neg <=> text[1] = Text("-")
  /\ IsNumeral(IF neg THEN Tail(text) ELSE text)
  /\ DecimalValue(IF neg THEN Tail(text) ELSE text) = magnitude

\* C25: an unsigned integer x with the Microseconds hint is written as floor(x / 10^6),
\* a dot and x mod 10^6 padded with zeros to exactly six digits; a signed integer with
\* the Microseconds hint is written in plain decimal.
C25_Microseconds ==
  /\ MicrosecondsShown("Uxx") =>
       /\ call.out.w = "string"
       /\ IsMicrosecondsOf(call.out.text, call.arg.args[1].v)
  /\ MicrosecondsShown("Ixx") =>
       /\ call.out.w = "string"
       /\ IsDecimalOf(call.out.text, call.arg.args[1].neg, call.arg.args[1].v)

\* 1000001 microseconds were written as "1.000001"
C25_Witness ==
  /\ MicrosecondsShown("Uxx")
  /\ call.arg.args[1].v = BigOfNat(1000001)
  /\ call.out.text = <<Text("1"), Text("."), Text("0"), Text("0"), Text("0"), Text("0"),
                       Text("0"), Text("1")>>

\* 2 microseconds were written as "0.000002"
C25_SmallWitness ==
  /\ MicrosecondsShown("Uxx")
  /\ call.arg.args[1].v = <<2>>
  /\ call.out.text = <<Text("0"), Text("."), Text("0"), Text("0"), Text("0"), Text("0"),
                       Text("0"), Text("2")>>

\* the greatest u128 was written with the Microseconds hint
C25_WideWitness ==
  /\ MicrosecondsShown("Uxx")
  /\ call.arg.args[1].v = Repeat(255, 16)
  /\ Len(call.out.text) = 40

\* -10 with the Microseconds hint was written as "-10"
C25_SignedWitness ==
  /\ MicrosecondsShown("Ixx")
  /\ call.arg.args[1].neg
  /\ call.arg.args[1].v = <<10>>
  /\ call.out.text = <<Text("-"), Text("1"), Text("0")>>

\* the step ran get_format while a Use list was active with `left` unused entries
GetFormatInUseMode(e) == e.site = "get_format" /\ e.mode = "Use"

\* the entry of the list at its cursor
EntryAtCursor == format_list.formats[format_list.cursor + 1]

\* the format the step went on with is f: it is the format of the call of decode_format
\* or of decode_format_slice the step made, whole or, for an enum, one of its variants
WentOnWith(f) ==
  \/ pc' = "done"
  \/ /\ Len(stack') = Len(stack) + 1
     /\ \/ stack'[Len(stack')].format = f
        \/ \E d \in DOMAIN f : stack'[Len(stack')].format = <<f[d]>>

\* the step read the index of a format from the stream, or found no byte to read
ReadsIndex ==
  \/ \E k \in Len(log) + 1 .. Len(log') :
       /\ log'[k].site = "get_format"
       /\ log'[k].src = "stream"
       /\ log'[k].data # <<>>
       /\ bytes' = Drop(bytes, Len(log'[k].data))
          \/ \E j \in k + 1 .. Len(log') : log'[j].site = "get_variant"
          \/ pc' = "done"
  \/ pc' = "done" /\ result'.kind = "UnexpectedEof"

C26_SliceWitness ==
  /\ log # <<>>
  /\ log[Len(log)].site = "get_format"
  /\ log[Len(log)].src = "list"
  /\ log[Len(log)].param = "FormatArray"
  /\ format_list.mode = "Use"
  /\ format_list.cursor = 1

\* a Format reference found the list used up and read its index from the stream
C26_ExhaustedWitness ==
  /\ log # <<>>
  /\ log[Len(log)].site = "get_format"
  /\ log[Len(log)].src = "stream"
  /\ log[Len(log)].mode = "Use"
  /\ log[Len(log)].left = 0
  /\ format_list.mode = "Use"
  /\ format_list.cursor = Len(format_list.formats)
  /\ format_list.cursor > 0

\* the table has no entry at the index these bytes encode
NoEntryAt(data) ==
  \/ ~IsSmall(Leb128Value(data))
  \/ Small(Leb128Value(data)) \notin DOMAIN Tables[table].entries

\* the entry at the index these bytes encode
EntryAt(data) == Tables[table].entries[Small(Leb128Value(data))]

\* the index these bytes encode names an entry without a level
NamesFormat(data) == ~NoEntryAt(data) /\ EntryAt(data).tag \notin LevelTags

\* the step read the index of a format from the stream in get_format
IndexRead(e) == e.site = "get_format" /\ e.data # <<>>

\* the step read the index of an interned string
IStrRead(e) == e.site = "arg" /\ e.param = "IStr"

\* C27: when get_format reads an index from the stream the read fails as Malformed if
\* the table has no such entry or the entry bears a level tag; otherwise the entry's
\* format string is returned, and it is appended to the build-list if and only if a
\* Build list is active and below_enum is false.  An IStr parameter is looked up by
\* the same rule.
C27_IndexFromStream ==
  [][\A k \in Len(log) + 1 .. Len(log') :
       /\ IndexRead(log'[k]) =>
            IF ~NamesFormat(log'[k].data)
            THEN pc' = "done" /\ result'.kind = "Malformed" /\ format_list' = format_list
            ELSE /\ WentOnWith(EntryAt(log'[k].data).string)
                 /\ IF log'[k].mode = "Build" /\ ~log'[k].be
                    THEN format_list'.formats
                           = Append(format_list.formats, EntryAt(log'[k].data).string)
                    ELSE format_list' = format_list
       /\ IStrRead(log'[k]) =>
            IF ~NamesFormat(log'[k].data)
            THEN pc' = "done" /\ result'.kind = "Malformed"
            ELSE /\ pc' # "done"
                 /\ Len(stack') = Len(stack)
                 /\ stack'[Len(stack')].args
                      = Append(stack[Len(stack)].args, ArgIStr(EntryAt(log'[k].data).string))]_vars

\* a format read from the stream was appended to a Build list that had an entry
C27_Witness ==
  /\ log # <<>>
  /\ IndexRead(log[Len(log)])
  /\ log[Len(log)].mode = "Build"
  /\ ~log[Len(log)].be
  /\ format_list.mode = "Build"
  /\ Len(format_list.formats) >= 2
  /\ pc # "done"

\* a format read below an enum in Build mode was not appended
C27_BelowEnumWitness ==
  /\ log # <<>>
  /\ IndexRead(log[Len(log)])
  /\ log[Len(log)].mode = "Build"
  /\ log[Len(log)].be
  /\ format_list = BuildList(<<>>)
  /\ pc # "done"

\* a Format reference named an entry with a level and decode returned Malformed
C27_LevelWitness ==
  /\ pc = "done"
  /\ result.kind = "Malformed"
  /\ log # <<>>
  /\ IndexRead(log[Len(log)])
  /\ ~NoEntryAt(log[Len(log)].data)
  /\ EntryAt(log[Len(log)].data).tag \in LevelTags

\* an interned string was looked up; another index named a format and was refused
C27_IStrWitness ==
  /\ log # <<>>
  /\ IStrRead(log[Len(log)])
  /\ NamesFormat(log[Len(log)].data)
  /\ EntryAt(log[Len(log)].data).tag = "Str"
  /\ pc # "done"

\* a format slice or array resolved its format string
IsSliceFormat(e) == e.site = "get_format" /\ e.param \in {"FormatSlice", "FormatArray"}

\* the format was read from the stream
FromStream(e) == e.src \in {"stream", "stream+push"} /\ e.data # <<>>

\* the format was taken from the list
FromList(e) == e.src = "list" /\ e.data = <<>>

\* C28 (as amended): the format string of a non-empty format slice is obtained by
\* get_format: it is read as a LEB128 index from the stream unless a Use list with
\* unused entries is active, which is so only inside an element after the first of
\* an enclosing slice; there the slice takes the next entry of the list and reads
\* no index.
C28_SliceFormatByGetFormat ==
  \A k \in DOMAIN log :
    IsSliceFormat(log[k]) =>
      /\ log[k].mode = "Use" /\ log[k].left > 0 => FromList(log[k]) /\ log[k].later
      /\ ~(log[k].mode = "Use" /\ log[k].left > 0) => FromStream(log[k])
      /\ ~log[k].later => FromStream(log[k])

\* decode succeeded on nested arrays: the inner array of the first outer element read
\* its format from the stream, that of the second took it from the list
C28_Witness ==
  /\ Succeeded
  /\ table = "nested"
  /\ \E k \in DOMAIN log : IsSliceFormat(log[k]) /\ log[k].depth = 2 /\ FromStream(log[k])
  /\ \E k \in DOMAIN log : IsSliceFormat(log[k]) /\ log[k].depth = 2 /\ FromList(log[k])

\* C28 (as stated): the format string of a format slice is always read from the
\* stream, at every nesting depth and in every element of an enclosing slice.
C28_SliceFormatFromStream ==
  \A k \in DOMAIN log : IsSliceFormat(log[k]) => FromStream(log[k])

\* decode_format has just been called for an element after the first of a slice
LaterElementBegins ==
  /\ Running(St)
  /\ Len(stack) >= 2
  /\ Top(St).k = "fmt"
  /\ Top(St).ret = "element"
  /\ Top(St).i = 1
  /\ Top(St).args = <<>>
  /\ stack[Len(stack) - 1].i >= 1

\* C29 (as stated): every element after the first of a format slice is decoded with
\* the use-list installed with its cursor at 0, whatever the element before consumed
\* and wherever the slice is nested.
C29_CursorAtZero ==
  LaterElementBegins => format_list.mode = "Use" /\ format_list.cursor = 0

\* the root format is one format slice or array, and decode returned its elements
SliceDecoded ==
  /\ Succeeded
  /\ Len(FrameArgs) = 1
  /\ FrameArgs[1].tag = "FormatSlice"
  /\ FrameArgs[1].elements # <<>>

\* the root slice resolved its format string
IsRootSliceFormat(e) == IsSliceFormat(e) /\ e.depth = 1

\* the position in the log where the root slice resolved its format string
RootSliceAt == CHOOSE k \in DOMAIN log : IsRootSliceFormat(log[k])

\* the format string of the root slice, by the table
RootSliceFormat == EntryAt(log[RootSliceAt].data).string

\* the discriminant of an element of the root slice was read
IsElementDiscriminant(e) == e.site = "get_variant" /\ e.depth = 1 /\ e.param = ""

\* the discriminants of the elements of the root slice, in the order they were read
ElementDiscriminants == SelectSeq(log, IsElementDiscriminant)

\* the format the step resolved for a Format reference: the list's entry or the
\* entry of the index read
ResolvedByStep ==
  IF format_list.mode = "Use" /\ format_list.cursor < Len(format_list.formats)
  THEN EntryAtCursor
  ELSE EntryAt(log'[Len(log) + 1].data).string

\* the events the step added to the log
NewEvents == SubSeq(log', Len(log) + 1, Len(log'))

\* a Format reference resolved its format and decode went on
FormatResolved ==
  /\ AtParam(St, {"Format"})
  /\ Len(log') > Len(log)
  /\ pc' # "done"

\* C30: of a format slice of n elements whose format string contains '|' exactly n
\* discriminants are read, one before the arguments of each element, the first
\* element and the later ones alike, and each element's recorded format is the
\* variant its own discriminant selects; a scalar Format reference to an enum format
\* reads exactly one discriminant.
C30_OneDiscriminantEach ==
  /\ [](SliceDecoded /\ Len(RootSliceFormat) > 1 =>
          /\ Len(ElementDiscriminants) = Len(FrameArgs[1].elements)
          /\ \A k \in DOMAIN ElementDiscriminants :
               FrameArgs[1].elements[k].format
                 = <<RootSliceFormat[LeNat(ElementDiscriminants[k].data) + 1]>>
          /\ IsElementDiscriminant(log[RootSliceAt + 1])
          /\ \A k \in RootSliceAt + 1 .. Len(log) :
               log[k].depth = 1 => IsElementDiscriminant(log[k]))
  /\ [](SliceDecoded /\ Len(RootSliceFormat) = 1 => ElementDiscriminants = <<>>)
  /\ [][FormatResolved =>
          IF Len(ResolvedByStep) > 1
          THEN /\ Len(NewEvents) = 2
               /\ NewEvents[1].site = "get_format"
               /\ NewEvents[2].site = "get_variant"
               /\ Len(NewEvents[2].data) = 1
               /\ stack'[Len(stack')].format
                    = <<ResolvedByStep[LeNat(NewEvents[2].data) + 1]>>
          ELSE /\ Len(NewEvents) = 1
               /\ NewEvents[1].site = "get_format"
               /\ stack'[Len(stack')].format = ResolvedByStep]_vars

\* a slice of two Option elements was decoded, the first Some and the second None
C30_Witness ==
  /\ SliceDecoded
  /\ table = "slices"
  /\ Len(RootSliceFormat) = 2
  /\ Len(FrameArgs[1].elements) = 2
  /\ ElementDiscriminants[1].data = <<1>>
  /\ ElementDiscriminants[2].data = <<0>>

\* a scalar Format reference to an enum read its discriminant
C30_ScalarWitness ==
  /\ log # <<>>
  /\ Len(log) >= 2
  /\ log[Len(log)].site = "get_variant"
  /\ log[Len(log)].param = "Format"
  /\ log[Len(log) - 1].site = "get_format"
  /\ pc # "done"

\* a scalar Format reference took an enum format from the list in a later element
C30_UseWitness ==
  /\ log # <<>>
  /\ Len(log) >= 2
  /\ log[Len(log)].site = "get_variant"
  /\ log[Len(log)].param = "Format"
  /\ log[Len(log) - 1].site = "get_format"
  /\ log[Len(log) - 1].src = "list"
  /\ pc # "done"

(***************************************************************************)
(* C31: below_enum around decode_format and decode_format_slice.           *)
(***************************************************************************)
\* the frame is the decoding of an enum: the arguments of a variant, or an enum slice
IsEnumFrame(f) == IF f.k = "fmt" THEN f.ret = "enum" ELSE f.is_enum

\* a call on the stack decodes below an enum
EnumAbove == \E k \in 1 .. Len(stack) : IsEnumFrame(stack[k])

\* below_enum when the call of the frame was entered: decode_format is entered with the
\* flag already set for a variant, decode_format_slice with the caller's value
ValueAtEntry(f) ==
  IF f.k = "slice" THEN f.below_enum ELSE IF f.ret = "enum" THEN TRUE ELSE f.saved

\* below_enum in the body of the call of the frame
ValueInBody(f) == IF f.k = "slice" /\ f.is_enum THEN TRUE ELSE ValueAtEntry(f)

\* the top-level decode_format of the timestamp or of the root format is running
AtTopLevel == Running(St) /\ Len(stack) = 1 /\ Top(St).ret \in {"timestamp", "root"}

\* C31: whenever control is in the body of a decode_format or decode_format_slice call
\* (so after every nested call that returned to it) below_enum has the value the call
\* had at entry (true in the loop of an enum slice); a call entered from a body finds
\* the body's value; the flag is true exactly when a call on the stack decodes the
\* arguments of an enum variant or the elements of an enum slice; it is false from the
\* start to the end of the top-level decode_format calls and when decode returns Ok.
C31_BelowEnumRestored ==
  /\ Running(St) /\ (Top(St).k = "fmt" \/ ~Top(St).busy) =>
       below_enum = ValueInBody(Top(St))
  /\ Running(St) =>
       /\ \A k \in 2 .. Len(stack) :
            /\ stack[k].k = "slice" => stack[k].below_enum = ValueInBody(stack[k - 1])
            /\ stack[k].k = "fmt" => stack[k].saved = ValueInBody(stack[k - 1])
       /\ below_enum <=> EnumAbove
  /\ AtTopLevel => ~below_enum /\ ~Top(St).saved
  /\ pc \in {"index", "timestamp", "lookup", "flush"} \/ Succeeded => ~below_enum

\* the variant None of an Option was decoded and the flag is false again at the top level
C31_Witness ==
  /\ AtTopLevel
  /\ Top(St).args # <<>>
  /\ Last(Top(St).args) = ArgFormat(<<F_Option[1]>>, <<>>)
  /\ ~below_enum

\* a call inside the variant Some of an Option returned and the flag is true again
C31_NestedWitness ==
  /\ Running(St)
  /\ Top(St).k = "fmt"
  /\ Top(St).ret = "enum"
  /\ Top(St).format = <<F_Option[2]>>
  /\ Top(St).args # <<>>
  /\ below_enum

\* an enum slice of two elements returned to the root format and the flag is false again
C31_SliceWitness ==
  /\ AtTopLevel
  /\ Top(St).args # <<>>
  /\ Last(Top(St).args).tag = "FormatSlice"
  /\ Len(Last(Top(St).args).elements) = 2
  /\ \E k \in DOMAIN log : IsElementDiscriminant(log[k])
  /\ ~below_enum

\* an element of an enum slice is being decoded: the flag is true, the saved value false
C31_ElementWitness ==
  /\ Running(St)
  /\ Len(stack) = 3
  /\ stack[2].k = "slice"
  /\ stack[2].is_enum
  /\ ~stack[2].below_enum
  /\ stack[2].i = 1
  /\ Top(St).ret = "element"
  /\ below_enum

(***************************************************************************)
(* C32: the format list around decode_format_slice and its elements.       *)
(***************************************************************************)
\* the loop of decode_format_slice is between two elements or over
InSliceLoop == Running(St) /\ Top(St).k = "slice" /\ ~Top(St).busy

\* a format slice has just been pushed by the top-level decode_format of the root format
AfterTopLevelSlice ==
  /\ AtTopLevel
  /\ Top(St).args # <<>>
  /\ Last(Top(St).args).tag = "FormatSlice"

\* the step resolved a format for a parameter of the top-level format
IsTopLevelGetFormat(e) == e.site = "get_format" /\ e.depth = 1

\* the list extends the list `entered` in its own mode: a Build list may have grown,
\* a Use list may have moved its cursor on, no list is no list
SameListGoneOn(list, entered) ==
  /\ list.mode = entered.mode
  /\ entered.mode = "None" => list = NoList
  /\ entered.mode = "Build" =>
       /\ Len(list.formats) >= Len(entered.formats)
       /\ SubSeq(list.formats, 1, Len(entered.formats)) = entered.formats
  /\ entered.mode = "Use" =>
       /\ list.formats = entered.formats
       /\ list.cursor >= entered.cursor

\* C32: between the elements of a format slice and when its loop is over (the function
\* returns without touching the list again) the list has the mode it had when
\* decode_format_slice was called: no list if there was none, the same Build list
\* possibly grown, the same Use list possibly further on; no list is active at the
\* top level, so every format of a top-level parameter, also one after a completed
\* slice, is read from the stream; while an element after the first is decoded the
\* active list is a Use list and nothing is appended to a list, and after it the
\* list set aside (line 670, 687) is back unchanged.
C32_ListRestored ==
  /\ InSliceLoop => SameListGoneOn(format_list, Top(St).entered)
  /\ AtTopLevel => format_list = NoList
  /\ \A k \in DOMAIN log :
       /\ IsTopLevelGetFormat(log[k]) => FromStream(log[k]) /\ log[k].mode = "None"
       /\ log[k].later => log[k].mode = "Use" /\ log[k].src # "stream+push"
  /\ Running(St) /\ InLaterElement(St) => format_list.mode = "Use"
  /\ InSliceLoop /\ Top(St).branch \in {"build_rest", "none_rest"} =>
       format_list = Top(St).old

\* a slice of two Unit elements was decoded at the top level, then the index of the
\* next field's format was read from the stream
C32_Witness ==
  /\ Succeeded
  /\ table = "slices"
  /\ format = F_SliceThenFormat
  /\ Len(FrameArgs) = 2
  /\ Len(FrameArgs[1].elements) = 2
  /\ FrameArgs[2].tag = "Format"
  /\ IsTopLevelGetFormat(log[Len(log)])
  /\ log[Len(log)].param = "Format"
  /\ log[Len(log)].data = <<2>>

\* the second element of a slice nested in the first element of a slice returned:
\* the Build list of the enclosing slice is back
C32_BuildWitness ==
  /\ InSliceLoop
  /\ Top(St).branch = "build_rest"
  /\ Top(St).entered.mode = "Build"
  /\ format_list.mode = "Build"
  /\ Len(format_list.formats) > Len(Top(St).entered.formats)

\* the loop of a slice entered in Use mode is over
C32_UseWitness ==
  /\ AtSliceEnd(St)
  /\ Top(St).entered.mode = "Use"
  /\ Top(St).i >= 1

(***************************************************************************)
(* C33: the pending bools.                                                 *)
(***************************************************************************)
RECURSIVE ElementArgs(_)
\* the arguments of the elements of a format slice, in order
ElementArgs(elements) ==
  IF elements = <<>> THEN <<>> ELSE elements[1].args \o ElementArgs(Tail(elements))

RECURSIVE BoolCells(_)
\* the cells of the Arg::Bool in a list of arguments and in the arguments nested in
\* them, in order
BoolCells(arg_list) ==
  IF arg_list = <<>> THEN <<>>
  ELSE (CASE arg_list[1].tag = "Bool" -> <<arg_list[1].cell>>
          [] arg_list[1].tag = "Format" -> BoolCells(arg_list[1].args)
          [] arg_list[1].tag = "FormatSlice" -> BoolCells(ElementArgs(arg_list[1].elements))
          [] OTHER -> <<>>)
       \o BoolCells(Tail(arg_list))

\* the cells waiting for their bit
PendingCells == {bools_tbd[k] : k \in DOMAIN bools_tbd}

\* the step read a packed-bool byte
FlushedByStep == \E k \in DOMAIN NewEvents : IsFlush(NewEvents[k])

\* the step allocated at most one cell, false, and put it last in the pending list
AtMostOnePushed ==
  /\ Len(cells') \in {Len(cells), Len(cells) + 1}
  /\ \A c \in DOMAIN cells : cells'[c] = cells[c]
  /\ bools_tbd' = bools_tbd \o [k \in 1 .. Len(cells') - Len(cells) |-> Len(cells) + k]
  /\ \A c \in DOMAIN cells' \ DOMAIN cells : ~cells'[c]

\* the step read a packed-bool byte: the pending list is empty after it and no cell
\* that was not pending changed
PendingFlushed ==
  /\ Len(cells') \in {Len(cells), Len(cells) + 1}
  /\ bools_tbd' = <<>>
  /\ \A c \in DOMAIN cells \ PendingCells : cells'[c] = cells[c]

\* C33: the pending list never holds more than 8 cells, and fewer than 8 whenever decode
\* goes on after a parameter; a step that reads a packed-bool byte leaves the list
\* empty and changes no cell that was not pending, any other step changes no cell and
\* at most appends a new one to the list, so a cell gets its value from the one byte
\* read while it is pending; when decode returns Ok the list is empty and the Bool
\* arguments of the frame (timestamp, root, nested, in this order) are the cells
\* allocated, each once, none pending.
C33_PendingBools ==
  /\ [](Len(bools_tbd) <= MAX_NUM_BOOL_FLAGS)
  /\ [](pc # "done" => Len(bools_tbd) < MAX_NUM_BOOL_FLAGS)
  /\ [](Succeeded =>
          /\ bools_tbd = <<>>
          /\ SumPend(Flushes, Len(Flushes)) = Len(cells)
          /\ BoolCells(result.frame[1].timestamp_args) \o BoolCells(FrameArgs)
               = [c \in 1 .. Len(cells) |-> c])
  /\ [][pc \notin {"idle", "done"} =>
          IF FlushedByStep THEN PendingFlushed ELSE AtMostOnePushed]_vars

\* decode returned a frame with a Bool in the timestamp and nine Bool arguments, one of
\* them nested, after two packed-bool bytes
C33_Witness ==
  /\ Succeeded
  /\ Len(Flushes) = 2
  /\ Flushes[1].pend = MAX_NUM_BOOL_FLAGS
  /\ Len(BoolCells(result.frame[1].timestamp_args)) = 1
  /\ Len(cells) > MAX_NUM_BOOL_FLAGS

\* the eighth bool is pending and no byte is left for it: decode fails with eight pending
C33_FullWitness ==
  /\ Done
  /\ result.kind = "UnexpectedEof"
  /\ Len(bools_tbd) = MAX_NUM_BOOL_FLAGS

(***************************************************************************)
(* C34: a frame is decoded from its own bytes, whatever follows them.      *)
(***************************************************************************)
\* the bytes put after a frame: none, a zero, a byte with the continuation bit, the
\* terminator of a preformatted text, an index and the terminator
Extensions == {<<>>, <<0>>, <<128>>, <<255>>, <<1, 255>>}

\* decode returned in state s what it returned here: the same Result, and the same
\* values in the cells of the frame's Bool arguments
SameReturn(s) == s.result = result /\ s.cells = cells

\* the first `consumed` bytes of the input
FrameBytes == Take(input, result.consumed)

\* C34: when decode returns a frame and consumed = c, it returns the same frame and the
\* same c on the first c bytes of the input followed by any bytes, and UnexpectedEof
\* on every strict prefix of the first c bytes.
C34_FrameFromItsBytes ==
  [](Succeeded =>
       /\ \A ext \in Extensions : SameReturn(Run(DecodeDo(table, FrameBytes \o ext)))
       /\ \A k \in 0 .. result.consumed - 1 :
            decode(table, Take(input, k))
              = [kind |-> "UnexpectedEof", consumed |-> 0, frame |-> <<>>])

\* a frame of four bytes or more with a packed-bool byte was decoded from an input with
\* bytes after it
C34_Witness ==
  /\ Succeeded
  /\ result.consumed >= 4
  /\ len > result.consumed
  /\ Flushes # <<>>
  /\ SameReturn(Run(DecodeDo(table, FrameBytes \o <<255>>)))
  /\ decode(table, Take(input, result.consumed - 1)).kind = "UnexpectedEof"

\* a frame that ends with the terminator of a preformatted text, and more bytes
C34_TerminatorWitness ==
  /\ Succeeded
  /\ len > result.consumed
  /\ FrameArgs # <<>>
  /\ Last(FrameArgs).tag = "Preformatted"
  /\ input[result.consumed] = 255

(***************************************************************************)
(* C35: merge_bitfields.                                                   *)
(***************************************************************************)
IsBitfield(p) == p.ty.t = "BitField"

\* the parameters that are not bitfields, in their order
NonBitfields(params) == SelectSeq(params, LAMBDA p : ~IsBitfield(p))

\* the indices that have bitfields
BitfieldIndices(params) == {params[k].index : k \in {j \in DOMAIN params : IsBitfield(params[j])}}

\* the parameters after the first n
After(params, n) == SubSeq(params, n + 1, Len(params))

\* merged is one hint-less bitfield per index of `indices`, by increasing index
OnePerIndex(merged, indices) ==
  /\ \A k \in DOMAIN merged : IsBitfield(merged[k]) /\ merged[k].hint = "None"
  /\ \A j, k \in DOMAIN merged : j < k => merged[j].index < merged[k].index
  /\ {merged[k].index : k \in DOMAIN merged} = indices

\* C35: merge_bitfields gives the parameters that are not bitfields in their original
\* order, then one bitfield without hint per index that had bitfields, by increasing
\* index, and nothing else, so every bitfield given is removed; an empty list and a
\* list without bitfields come back as they were.
C35_MergeBitfields ==
  Applied("merge_bitfields") =>
    /\ Len(call.out) = Len(NonBitfields(call.arg)) + Cardinality(BitfieldIndices(call.arg))
    /\ SubSeq(call.out, 1, Len(NonBitfields(call.arg))) = NonBitfields(call.arg)
    /\ OnePerIndex(After(call.out, Len(NonBitfields(call.arg))), BitfieldIndices(call.arg))
    /\ call.arg = <<>> => call.out = <<>>
    /\ BitfieldIndices(call.arg) = {} => call.out = call.arg

\* the list of the test: the U8 of index 1 first, then the bitfield of index 0 and one
\* bitfield for the two of index 2
C35_Witness ==
  /\ Applied("merge_bitfields")
  /\ call.arg = OverlapNonConsecutive
  /\ call.out = <<Parameter(1, Ty("U8"), "None"), Parameter(0, BitField(0, 3), "None"),
                  Parameter(2, BitField(1, 5), "None")>>

\* bitfields with hints given after the bitfields of a higher index
C35_HintWitness ==
  /\ Applied("merge_bitfields")
  /\ call.arg = <<Parameter(2, BitField(1, 4), "Binary"), Parameter(2, Ty("U8"), "Hex"),
                  Parameter(0, BitField(2, 9), "Hex")>>
  /\ call.out = <<Parameter(2, Ty("U8"), "Hex"), Parameter(0, BitField(2, 9), "None"),
                  Parameter(2, BitField(1, 4), "None")>>

\* a list without bitfields
C35_UnchangedWitness ==
  /\ Applied("merge_bitfields")
  /\ Len(call.arg) = 3
  /\ BitfieldIndices(call.arg) = {}
  /\ call.out = call.arg

====
